---- MODULE Spec2Model ----
(***************************************************************************)
(* Context-free grammar analyser: Symbol, Grammar::parse, FIRST/FOLLOW,    *)
(* the LL(1) builder and recognizer, the LR(0) automaton and the SLR(1)    *)
(* builder and recognizer of rust_version/cfg-parser.                      *)
(*                                                                         *)
(* A character is a one-character string, a line of text a sequence of     *)
(* characters.  A HashSet is a set, a Vec a sequence, a HashMap a function *)
(* whose DOMAIN is the set of keys present.  Where the code iterates over  *)
(* a HashSet and the order can change the result, the order is a           *)
(* nondeterministic choice.                                                *)
(***************************************************************************)
EXTENDS Integers, Sequences, FiniteSets, TLC

(***************************************************************************)
(* symbol.rs                                                               *)
(***************************************************************************)
AsciiUppercase ==
    {"A","B","C","D","E","F","G","H","I","J","K","L","M",
     "N","O","P","Q","R","S","T","U","V","W","X","Y","Z"}

Terminal(c) == [k |-> "T", c |-> c]

Nonterminal(c) == [k |-> "N", c |-> c]

Epsilon == [k |-> "E", c |-> ""]

EndMarker == [k |-> "M", c |-> ""]

from_char(c) ==
    IF c \in AsciiUppercase THEN Nonterminal(c)
    ELSE IF c = "e" THEN Epsilon
    ELSE IF c = "$" THEN EndMarker
    ELSE Terminal(c)

is_terminal(s) == s.k = "T"

is_nonterminal(s) == s.k = "N"

is_epsilon(s) == s.k = "E"

is_end_marker(s) == s.k = "M"

string_to_symbols(s) == [i \in 1..Len(s) |-> from_char(s[i])]

\* Display for Symbol: the stored character, "ε" for Epsilon, "$" for EndMarker
symbol_to_string(s) ==
    IF is_epsilon(s) THEN "ε" ELSE IF is_end_marker(s) THEN "$" ELSE s.c

(***************************************************************************)
(* Text helpers of the standard library used by grammar.rs                 *)
(***************************************************************************)
IsWhitespace(c) == c \in {" ", "\t"}

RECURSIVE TrimStart(_)
TrimStart(s) ==
    IF s # <<>> /\ IsWhitespace(Head(s)) THEN TrimStart(Tail(s)) ELSE s

RECURSIVE TrimEnd(_)
TrimEnd(s) ==
    IF s # <<>> /\ IsWhitespace(s[Len(s)])
    THEN TrimEnd(SubSeq(s, 1, Len(s) - 1))
    ELSE s

Trim(s) == TrimEnd(TrimStart(s))

\* str::split("->"): the pieces between the non-overlapping occurrences
RECURSIVE SplitArrow(_)
SplitArrow(s) ==
    LET hits == {i \in 1..(Len(s) - 1) : s[i] = "-" /\ s[i + 1] = ">"}
    IN  IF hits = {} THEN <<s>>
        ELSE LET i == CHOOSE j \in hits : \A h \in hits : j <= h
             IN  <<SubSeq(s, 1, i - 1)>> \o SplitArrow(SubSeq(s, i + 2, Len(s)))

\* a split that cuts at the first run of blanks only
SplitAtFirstBlank(s) ==
    LET t == Trim(s)
        ws == {i \in 1..Len(t) : IsWhitespace(t[i])}
    IN  IF t = <<>> THEN <<>>
        ELSE IF ws = {} THEN <<t>>
        ELSE LET n == (CHOOSE j \in ws : \A h \in ws : j <= h) - 1
             IN  <<SubSeq(t, 1, n), TrimStart(SubSeq(t, n + 1, Len(t)))>>

\* str::split_whitespace: the maximal runs of non-whitespace characters
RECURSIVE SplitWhitespace(_)
SplitWhitespace(s) ==
    LET t == TrimStart(s)
    IN  IF t = <<>> THEN <<>>
        ELSE LET ws == {i \in 1..Len(t) : IsWhitespace(t[i])}
                 n  == IF ws = {} THEN Len(t)
                       ELSE (CHOOSE j \in ws : \A h \in ws : j <= h) - 1
             IN  <<SubSeq(t, 1, n)>> \o SplitWhitespace(SubSeq(t, n + 1, Len(t)))

Digits == {"0","1","2","3","4","5","6","7","8","9"}

DigitVal(c) ==
    CASE c = "0" -> 0 [] c = "1" -> 1 [] c = "2" -> 2 [] c = "3" -> 3
      [] c = "4" -> 4 [] c = "5" -> 5 [] c = "6" -> 6 [] c = "7" -> 7
      [] c = "8" -> 8 [] c = "9" -> 9

RECURSIVE DigitsValue(_, _)
DigitsValue(s, acc) ==
    IF s = <<>> THEN acc ELSE DigitsValue(Tail(s), 10 * acc + DigitVal(Head(s)))

\* usize::MAX of the 64-bit build, in decimal digits
UsizeMaxDigits ==
    <<"1", "8", "4", "4", "6", "7", "4", "4", "0", "7",
      "3", "7", "0", "9", "5", "5", "1", "6", "1", "5">>

\* a digit string without its leading zeros
RECURSIVE StripZeros(_)
StripZeros(d) ==
    IF d # <<>> /\ Head(d) = "0" THEN StripZeros(Tail(d)) ELSE d

\* a <= b for two digit strings without leading zeros
RECURSIVE DigitsLessEq(_, _)
DigitsLessEq(a, b) ==
    IF Len(a) # Len(b) THEN Len(a) < Len(b)
    ELSE IF a = <<>> THEN TRUE
    ELSE IF Head(a) # Head(b) THEN DigitVal(Head(a)) < DigitVal(Head(b))
    ELSE DigitsLessEq(Tail(a), Tail(b))

\* str::parse::<usize>: an optional "+", then one or more decimal digits whose
\* value fits a usize (a larger value is the error PosOverflow).  n is the value
\* when it has at most 9 digits; `wide` says that it has more, `is_max` that it
\* is usize::MAX.
ParseUsize(s) ==
    LET d == IF s # <<>> /\ Head(s) = "+" THEN Tail(s) ELSE s
        z == StripZeros(d)
    IN  IF d # <<>> /\ (\A i \in 1..Len(d) : d[i] \in Digits)
           /\ DigitsLessEq(z, UsizeMaxDigits)
        THEN [ok |-> TRUE,
              n |-> IF Len(z) <= 9 THEN DigitsValue(z, 0) ELSE 0,
              wide |-> Len(z) > 9,
              is_max |-> z = UsizeMaxDigits]
        ELSE [ok |-> FALSE, n |-> 0, wide |-> FALSE, is_max |-> FALSE]

(***************************************************************************)
(* grammar.rs                                                              *)
(***************************************************************************)
Production(lhs, rhs) == [lhs |-> lhs, rhs |-> rhs]

\* Display for Production
RECURSIVE symbols_to_string(_)
symbols_to_string(syms) ==
    IF syms = <<>> THEN <<>>
    ELSE <<symbol_to_string(Head(syms))>> \o symbols_to_string(Tail(syms))

production_to_string(p) ==
    <<symbol_to_string(p.lhs), "→">> \o
    (IF p.rhs = <<Epsilon>> THEN <<"ε">> ELSE symbols_to_string(p.rhs))

NoGrammar ==
    [productions |-> <<>>, nonterminals |-> {}, terminals |-> {},
     start_symbol |-> Nonterminal("S"), production_map |-> <<>>]

Err(e) == [ok |-> FALSE, err |-> e, val |-> <<>>]

Ok(v) == [ok |-> TRUE, err |-> "", val |-> v]

\* Grammar::parse_production_line
parse_production_line(line) ==
    LET parts == SplitArrow(line)
    IN  IF Len(parts) # 2 THEN Err("InvalidProduction")
        ELSE LET lhs_str == Trim(parts[1])
             IN  IF lhs_str = <<>> THEN Err("InvalidProduction")
                 ELSE LET lhs == from_char(Head(lhs_str))
                          alternatives == SplitWhitespace(Trim(parts[2]))
                      IN  Ok([i \in 1..Len(alternatives) |->
                                 Production(lhs, string_to_symbols(alternatives[i]))])

\* Grammar::from_productions: production_map.entry(prod.lhs).or_default().push(prod)
\* for each production in turn
RECURSIVE production_map_from(_, _, _)
production_map_from(productions, i, map) ==
    IF i > Len(productions) THEN map
    ELSE LET prod == productions[i]
             entry == IF prod.lhs \in DOMAIN map THEN map[prod.lhs] ELSE <<>>
         IN  production_map_from(productions, i + 1,
                 [key \in DOMAIN map \cup {prod.lhs} |->
                     IF key = prod.lhs THEN Append(entry, prod) ELSE map[key]])

\* Grammar::from_productions
from_productions(productions) ==
    IF productions = <<>> THEN [ok |-> FALSE, err |-> "EmptyInput", val |-> NoGrammar]
    ELSE LET lhs_nonterminals == {productions[i].lhs : i \in 1..Len(productions)}
             rhs_symbols == UNION {{productions[i].rhs[j] :
                                      j \in 1..Len(productions[i].rhs)} :
                                   i \in 1..Len(productions)}
             rhs_nonterminals == {s \in rhs_symbols : is_nonterminal(s)}
         IN  [ok |-> TRUE, err |-> "",
              val |-> [productions |-> productions,
                       nonterminals |-> lhs_nonterminals \cup rhs_nonterminals,
                       terminals |-> {s \in rhs_symbols : is_terminal(s)},
                       start_symbol |-> Nonterminal("S"),
                       production_map |->
                           production_map_from(productions, 1, <<>>)]]

\* the loop of Grammar::parse over lines[1..=n] (1-based here: lines 2..n+1)
RECURSIVE parse_lines(_, _, _, _)
parse_lines(lines, i, n, acc) ==
    IF i > n + 1 THEN Ok(acc)
    ELSE LET r == parse_production_line(lines[i])
         IN  IF ~r.ok THEN r ELSE parse_lines(lines, i + 1, n, acc \o r.val)

\* Grammar::parse.  With n = usize::MAX the sum n + 1 overflows: a build with
\* overflow checks panics there, a build without them gets 0, passes the length
\* test and panics at the slice lines[1..=n]; either way the call panics.
Grammar_parse(lines) ==
    IF lines = <<>> THEN [ok |-> FALSE, err |-> "EmptyInput", val |-> NoGrammar]
    ELSE LET n == ParseUsize(Trim(lines[1]))
         IN  IF ~n.ok THEN [ok |-> FALSE, err |-> "InvalidFormat", val |-> NoGrammar]
             ELSE IF n.is_max
             THEN [ok |-> FALSE, err |-> "panic", val |-> NoGrammar]
             ELSE IF n.wide \/ Len(lines) < n.n + 1
             THEN [ok |-> FALSE, err |-> "NotEnoughProductions", val |-> NoGrammar]
             ELSE LET all == parse_lines(lines, 2, n.n, <<>>)
                  IN  IF ~all.ok
                      THEN [ok |-> FALSE, err |-> all.err, val |-> NoGrammar]
                      ELSE from_productions(all.val)

\* Grammar::get_productions
get_productions(g, nt) ==
    IF nt \in DOMAIN g.production_map THEN g.production_map[nt] ELSE <<>>

(***************************************************************************)
(* first_follow.rs                                                         *)
(***************************************************************************)
\* HashMap::get(..).cloned().unwrap_or_default()
GetOrEmpty(m, key) == IF key \in DOMAIN m THEN m[key] ELSE {}

\* first_of_string
RECURSIVE first_of_string_from(_, _, _, _, _)
first_of_string_from(first_sets, symbols, i, result, has_epsilon) ==
    IF i > Len(symbols) \/ ~has_epsilon
    THEN IF has_epsilon THEN result \cup {Epsilon} ELSE result
    ELSE LET first_sym == GetOrEmpty(first_sets, symbols[i])
         IN  first_of_string_from(first_sets, symbols, i + 1,
                                  result \cup {s \in first_sym : ~is_epsilon(s)},
                                  Epsilon \in first_sym)

\* first_of_string without the `break` at the first symbol that cannot vanish
first_of_string_no_break(first_sets, symbols) ==
    LET all == UNION {GetOrEmpty(first_sets, symbols[i]) : i \in 1..Len(symbols)}
    IN  {s \in all : ~is_epsilon(s)} \cup
        (IF \A i \in 1..Len(symbols) : Epsilon \in GetOrEmpty(first_sets, symbols[i])
         THEN {Epsilon} ELSE {})

first_of_string(first_sets, symbols) ==
    first_of_string_from(first_sets, symbols, 1, {}, TRUE)

\* compute_first_sets: the initial map; the nonterminal entries are inserted last
first_init(g) ==
    [s \in g.terminals \cup {Epsilon, EndMarker} \cup g.nonterminals |->
        IF s \in g.nonterminals THEN {} ELSE {s}]

\* one pass of the fixed-point loop over all_productions(), updating in place
RECURSIVE first_pass(_, _, _, _)
first_pass(g, i, first_sets, changed) ==
    IF i > Len(g.productions) THEN [sets |-> first_sets, changed |-> changed]
    ELSE LET lhs == g.productions[i].lhs
             current_first == first_sets[lhs]
             new_first == current_first \cup
                          first_of_string(first_sets, g.productions[i].rhs)
         IN  IF Cardinality(new_first) # Cardinality(current_first)
             THEN first_pass(g, i + 1, [first_sets EXCEPT ![lhs] = new_first], TRUE)
             ELSE first_pass(g, i + 1, first_sets, changed)

\* the loop left after its first pass, whether or not a set has changed
first_loop_one_pass(g, first_sets) == first_pass(g, 1, first_sets, FALSE).sets

RECURSIVE first_loop(_, _)
first_loop(g, first_sets) ==
    LET r == first_pass(g, 1, first_sets, FALSE)
    IN  IF r.changed THEN first_loop(g, r.sets) ELSE r.sets

compute_first_sets(g) == first_loop(g, first_init(g))

\* compute_follow_sets: the positions of one production, left to right
RECURSIVE follow_positions(_, _, _, _, _, _)
follow_positions(first_sets, lhs, rhs, i, follow_sets, changed) ==
    IF i > Len(rhs) THEN [sets |-> follow_sets, changed |-> changed]
    ELSE IF ~is_nonterminal(rhs[i])
    THEN follow_positions(first_sets, lhs, rhs, i + 1, follow_sets, changed)
    ELSE LET symbol == rhs[i]
             current_follow == follow_sets[symbol]
             beta == SubSeq(rhs, i + 1, Len(rhs))
             first_beta == first_of_string(first_sets, beta)
             with_first == current_follow \cup {s \in first_beta : ~is_epsilon(s)}
             new_follow == IF beta = <<>> \/ Epsilon \in first_beta
                           THEN with_first \cup follow_sets[lhs]
                           ELSE with_first
         IN  IF Cardinality(new_follow) # Cardinality(current_follow)
             THEN follow_positions(first_sets, lhs, rhs, i + 1,
                                   [follow_sets EXCEPT ![symbol] = new_follow], TRUE)
             ELSE follow_positions(first_sets, lhs, rhs, i + 1, follow_sets, changed)

RECURSIVE follow_pass(_, _, _, _, _)
follow_pass(g, first_sets, i, follow_sets, changed) ==
    IF i > Len(g.productions) THEN [sets |-> follow_sets, changed |-> changed]
    ELSE LET r == follow_positions(first_sets, g.productions[i].lhs,
                                   g.productions[i].rhs, 1, follow_sets, changed)
         IN  follow_pass(g, first_sets, i + 1, r.sets, r.changed)

\* the loop left after its first pass, whether or not a set has changed
follow_loop_one_pass(g, first_sets, follow_sets) ==
    follow_pass(g, first_sets, 1, follow_sets, FALSE).sets

RECURSIVE follow_loop(_, _, _)
follow_loop(g, first_sets, follow_sets) ==
    LET r == follow_pass(g, first_sets, 1, follow_sets, FALSE)
    IN  IF r.changed THEN follow_loop(g, first_sets, r.sets) ELSE r.sets

\* follow_sets.get_mut(&start_symbol).unwrap() panics when the start symbol has
\* no entry, that is when 'S' is not among the grammar's nonterminals
follow_panics(g) == g.start_symbol \notin g.nonterminals

\* compute_follow_sets without the EndMarker put into FOLLOW(start symbol)
compute_follow_sets_no_end_marker(g, first_sets) ==
    follow_loop(g, first_sets, [s \in g.nonterminals |-> {}])

compute_follow_sets(g, first_sets) ==
    follow_loop(g, first_sets,
                [s \in g.nonterminals |->
                    IF s = g.start_symbol THEN {EndMarker} ELSE {}])

(***************************************************************************)
(* ll1.rs                                                                  *)
(***************************************************************************)
LL1Conflict(nonterminal, terminal, prod1, prod2) ==
    [ok |-> FALSE, table |-> <<>>,
     err |-> [kind |-> "LL1Conflict",
              nonterminal |-> symbol_to_string(nonterminal),
              terminal |-> symbol_to_string(terminal),
              prod1 |-> production_to_string(prod1),
              prod2 |-> production_to_string(prod2)]]

LL1Built(table) == [ok |-> TRUE, table |-> table, err |-> <<>>]

\* the insertion loop without the check for an occupied cell: the later
\* production overwrites the earlier one
ll1_insert_overwrite(table, production, symbols) ==
    [errs |-> {},
     table |-> [key \in DOMAIN table \cup {<<production.lhs, s>> : s \in symbols} |->
                   IF key[1] = production.lhs /\ key[2] \in symbols
                   THEN production ELSE table[key]]]

\* one of the two insertion loops of LL1Parser::build for one production: the
\* loop walks the HashSet `symbols` in an unspecified order and returns the error
\* at the first key it finds occupied, so every occupied key is a possible report
ll1_insert(table, production, symbols) ==
    LET lhs == production.lhs
        occupied == {s \in symbols : <<lhs, s>> \in DOMAIN table}
    IN  IF occupied # {}
        THEN [errs |-> {LL1Conflict(lhs, s, table[<<lhs, s>>], production) :
                          s \in occupied},
              table |-> table]
        ELSE [errs |-> {},
              table |-> [key \in DOMAIN table \cup {<<lhs, s>> : s \in symbols} |->
                            IF key \in DOMAIN table THEN table[key] ELSE production]]

\* LL1Parser::build from production i on: the set of results the build can return
RECURSIVE ll1_build_from(_, _, _, _, _)
ll1_build_from(g, first_sets, follow_sets, i, table) ==
    IF i > Len(g.productions) THEN {LL1Built(table)}
    ELSE LET production == g.productions[i]
             first_alpha == first_of_string(first_sets, production.rhs)
             r1 == ll1_insert(table, production,
                              {s \in first_alpha : ~is_epsilon(s)})
         IN  IF r1.errs # {} THEN r1.errs
             ELSE IF Epsilon \in first_alpha
             THEN LET r2 == ll1_insert(r1.table, production,
                                       GetOrEmpty(follow_sets, production.lhs))
                  IN  IF r2.errs # {} THEN r2.errs
                      ELSE ll1_build_from(g, first_sets, follow_sets, i + 1, r2.table)
             ELSE ll1_build_from(g, first_sets, follow_sets, i + 1, r1.table)

LL1Parser_build(g, first_sets, follow_sets) ==
    ll1_build_from(g, first_sets, follow_sets, 1, <<>>)

\* LL1Parser::parse: the state before the loop
ll1_parse_init(g) ==
    [stack |-> <<EndMarker, g.start_symbol>>, input_index |-> 0, result |-> "running"]

\* Vec::pop and pushing a sequence in reverse order (top of stack = last element)
Pop(stack) == SubSeq(stack, 1, Len(stack) - 1)

Reverse(s) == [i \in 1..Len(s) |-> s[Len(s) + 1 - i]]

\* the body of the while loop with a match that neither pops the stack nor
\* advances the cursor
ll1_parse_body_match_stays(table, input_symbols, c) ==
    LET top == c.stack[Len(c.stack)]
        current_input == input_symbols[c.input_index + 1]
    IN  IF top = current_input
        THEN c
        ELSE IF is_nonterminal(top)
        THEN IF <<top, current_input>> \in DOMAIN table
             THEN LET production == table[<<top, current_input>>]
                  IN  [c EXCEPT !.stack =
                          IF production.rhs # <<Epsilon>>
                          THEN Pop(c.stack) \o Reverse(production.rhs)
                          ELSE Pop(c.stack)]
             ELSE [c EXCEPT !.result = "false"]
        ELSE [c EXCEPT !.result = "false"]

\* the body of the while loop of LL1Parser::parse
ll1_parse_body(table, input_symbols, c) ==
    LET top == c.stack[Len(c.stack)]
        current_input == input_symbols[c.input_index + 1]
    IN  IF top = current_input
        THEN [c EXCEPT !.stack = Pop(c.stack), !.input_index = c.input_index + 1]
        ELSE IF is_nonterminal(top)
        THEN IF <<top, current_input>> \in DOMAIN table
             THEN LET production == table[<<top, current_input>>]
                  IN  [c EXCEPT !.stack =
                          IF production.rhs # <<Epsilon>>
                          THEN Pop(c.stack) \o Reverse(production.rhs)
                          ELSE Pop(c.stack)]
             ELSE [c EXCEPT !.result = "false"]
        ELSE [c EXCEPT !.result = "false"]

\* one iteration of the loop, followed by the loop test and, when the loop ends,
\* the final expression of LL1Parser::parse
ll1_parse_step(table, input_symbols, c) ==
    LET d == ll1_parse_body(table, input_symbols, c)
    IN  IF d.result # "running" THEN d
        ELSE IF d.stack # <<>> /\ d.input_index < Len(input_symbols) THEN d
        ELSE [d EXCEPT !.result =
                 IF d.stack = <<>> /\ d.input_index = Len(input_symbols)
                 THEN "true" ELSE "false"]

(***************************************************************************)
(* slr1.rs                                                                 *)
(***************************************************************************)
Item(production, dot_position) ==
    [production |-> production, dot_position |-> dot_position]

\* Item::symbol_after_dot: an Option, here a sequence of zero or one symbol
symbol_after_dot(item) ==
    IF item.dot_position < Len(item.production.rhs)
    THEN <<item.production.rhs[item.dot_position + 1]>>
    ELSE <<>>

\* Item::is_reduce_item
is_reduce_item(item) == item.dot_position >= Len(item.production.rhs)

Shift(next_state) == [type |-> "Shift", next_state |-> next_state]

Reduce(production) == [type |-> "Reduce", production |-> production]

Accept == [type |-> "Accept"]

\* SLR1Parser::build: the augmented start symbol and production S' -> S
augmented_start == Nonterminal("'")

start_production(g) == Production(augmented_start, <<g.start_symbol>>)

\* closure with a single pass instead of the loop to the fixed point
closure_one_pass(g, items) ==
    items \cup
    UNION {LET sym == symbol_after_dot(item)
           IN  IF sym # <<>> /\ is_nonterminal(sym[1])
               THEN LET prods == get_productions(g, sym[1])
                    IN  {Item(prods[i], 0) : i \in 1..Len(prods)}
               ELSE {} : item \in items}

\* SLR1Parser::closure
RECURSIVE closure(_, _)
closure(g, items) ==
    LET new_items ==
            UNION {LET sym == symbol_after_dot(item)
                   IN  IF sym # <<>> /\ is_nonterminal(sym[1])
                       THEN LET prods == get_productions(g, sym[1])
                            IN  {Item(prods[i], 0) : i \in 1..Len(prods)}
                       ELSE {} : item \in items}
    IN  IF new_items \subseteq items THEN items ELSE closure(g, items \cup new_items)

\* goto that returns the moved items without their closure
goto_kernel(g, items, symbol) ==
    {Item(item.production, item.dot_position + 1) :
       item \in {it \in items : symbol_after_dot(it) = <<symbol>>}}

\* SLR1Parser::goto
goto(g, items, symbol) ==
    closure(g, {Item(item.production, item.dot_position + 1) :
                  item \in {it \in items : symbol_after_dot(it) = <<symbol>>}})

\* Ord for Symbol: Epsilon < Terminals < Nonterminals < EndMarker, characters
\* by code point
AsciiOrder ==
    <<"$", "'", "(", ")", "*", "+", "-",
      "0", "1", "2", "3", "4", "5", "6", "7", "8", "9", ">",
      "A", "B", "C", "D", "E", "F", "G", "H", "I", "J", "K", "L", "M",
      "N", "O", "P", "Q", "R", "S", "T", "U", "V", "W", "X", "Y", "Z",
      "a", "b", "c", "d", "e", "f", "g", "h", "i", "j", "k", "l", "m",
      "n", "o", "p", "q", "r", "s", "t", "u", "v", "w", "x", "y", "z">>

CharLess(c1, c2) ==
    \E i, j \in 1..Len(AsciiOrder) : AsciiOrder[i] = c1 /\ AsciiOrder[j] = c2 /\ i < j

symbol_less(a, b) ==
    IF is_epsilon(a) THEN ~is_epsilon(b)
    ELSE IF is_epsilon(b) THEN FALSE
    ELSE IF is_end_marker(a) THEN FALSE
    ELSE IF is_end_marker(b) THEN TRUE
    ELSE IF is_terminal(a) /\ is_nonterminal(b) THEN TRUE
    ELSE IF is_nonterminal(a) /\ is_terminal(b) THEN FALSE
    ELSE CharLess(a.c, b.c)

\* the orders in which `for symbol in symbols` of build_lr0_automaton is taken to
\* walk its HashSet: ascending or descending in Ord for Symbol
SymbolOrders == {"ascending", "descending"}

RECURSIVE iteration_order(_, _)
iteration_order(symbols, order) ==
    IF symbols = {} THEN <<>>
    ELSE LET first == IF order = "ascending"
                      THEN CHOOSE s \in symbols :
                               \A t \in symbols \ {s} : symbol_less(s, t)
                      ELSE CHOOSE s \in symbols :
                               \A t \in symbols \ {s} : symbol_less(t, s)
         IN  <<first>> \o iteration_order(symbols \ {first}, order)

\* states.iter().position(|s| s == &next_state), as a state id (0-based), or -1
position(states, next_state) ==
    LET hits == {i \in 1..Len(states) : states[i] = next_state}
    IN  IF hits = {} THEN -1 ELSE (CHOOSE i \in hits : \A h \in hits : i <= h) - 1

MapInsert(m, key, value) ==
    [k \in DOMAIN m \cup {key} |-> IF k = key THEN value ELSE m[k]]

\* build_lr0_automaton: the inner loop over the symbols of one state
RECURSIVE lr0_symbols(_, _, _, _, _)
lr0_symbols(g, state_id, state, symbols, a) ==
    IF symbols = <<>> THEN a
    ELSE LET symbol == Head(symbols)
             next_state == goto(g, state, symbol)
             existing_id == position(a.states, next_state)
         IN  lr0_symbols(g, state_id, state, Tail(symbols),
                 IF next_state = {} THEN a
                 ELSE IF existing_id >= 0
                 THEN [a EXCEPT !.transitions =
                           MapInsert(@, <<state_id, symbol>>, existing_id)]
                 ELSE [states |-> Append(a.states, next_state),
                       worklist |-> Append(a.worklist, Len(a.states)),
                       transitions |->
                           MapInsert(a.transitions, <<state_id, symbol>>,
                                     Len(a.states))])

\* build_lr0_automaton: the worklist loop
RECURSIVE lr0_worklist(_, _, _)
lr0_worklist(g, order, a) ==
    IF a.worklist = <<>> THEN a
    ELSE LET state_id == Head(a.worklist)
             state == a.states[state_id + 1]
             symbols == {symbol_after_dot(item)[1] :
                           item \in {it \in state : symbol_after_dot(it) # <<>>}}
         IN  lr0_worklist(g, order,
                 lr0_symbols(g, state_id, state, iteration_order(symbols, order),
                             [a EXCEPT !.worklist = Tail(a.worklist)]))

build_lr0_automaton(g, start, order) ==
    LET a == lr0_worklist(g, order,
                 [states |-> <<closure(g, {Item(start, 0)})>>,
                  transitions |-> <<>>,
                  worklist |-> <<0>>])
    IN  [states |-> a.states, transitions |-> a.transitions]

SLR1ShiftReduceConflict(state_id, symbol) ==
    [kind |-> "SLR1ShiftReduceConflict", state |-> state_id,
     symbol |-> symbol_to_string(symbol)]

SLR1ReduceReduceConflict(state_id, symbol, prod1, prod2) ==
    [kind |-> "SLR1ReduceReduceConflict", state |-> state_id,
     symbol |-> symbol_to_string(symbol),
     prod1 |-> production_to_string(prod1),
     prod2 |-> production_to_string(prod2)]

\* the body of `for item in state` with an accept branch that enters Accept
\* only into an unset cell
build_tables_item_accept_if_unset(action_table, transitions, follow_sets, state_id, item) ==
    IF ~is_reduce_item(item)
    THEN LET symbol == symbol_after_dot(item)[1]
             key == <<state_id, symbol>>
         IN  IF (is_terminal(symbol) \/ is_end_marker(symbol))
                /\ key \in DOMAIN transitions
             THEN IF key \in DOMAIN action_table
                  THEN [errs |-> {SLR1ShiftReduceConflict(state_id, symbol)},
                        action_table |-> action_table]
                  ELSE [errs |-> {},
                        action_table |->
                            MapInsert(action_table, key, Shift(transitions[key]))]
             ELSE [errs |-> {}, action_table |-> action_table]
    ELSE IF item.production.lhs = augmented_start
    THEN [errs |-> {},
          action_table |->
              IF <<state_id, EndMarker>> \in DOMAIN action_table THEN action_table
              ELSE MapInsert(action_table, <<state_id, EndMarker>>, Accept)]
    ELSE LET follow_a == GetOrEmpty(follow_sets, item.production.lhs)
             occupied == {s \in follow_a : <<state_id, s>> \in DOMAIN action_table}
             shifts == {s \in occupied : action_table[<<state_id, s>>].type = "Shift"}
             reduces == {s \in occupied : action_table[<<state_id, s>>].type = "Reduce"}
         IN  IF shifts \cup reduces # {}
             THEN [errs |->
                       {SLR1ShiftReduceConflict(state_id, s) : s \in shifts} \cup
                       {SLR1ReduceReduceConflict(state_id, s,
                            action_table[<<state_id, s>>].production,
                            item.production) : s \in reduces},
                   action_table |-> action_table]
             ELSE [errs |-> {},
                   action_table |->
                       [key \in DOMAIN action_table \cup
                                {<<state_id, s>> : s \in follow_a} |->
                           IF key \in DOMAIN action_table THEN action_table[key]
                           ELSE Reduce(item.production)]]

\* the body of `for item in state` with a reduce branch that enters
\* Reduce(A -> alpha) over whatever the cell holds
build_tables_item_overwrite(action_table, transitions, follow_sets, state_id, item) ==
    IF ~is_reduce_item(item)
    THEN LET symbol == symbol_after_dot(item)[1]
             key == <<state_id, symbol>>
         IN  IF (is_terminal(symbol) \/ is_end_marker(symbol))
                /\ key \in DOMAIN transitions
             THEN IF key \in DOMAIN action_table
                  THEN [errs |-> {SLR1ShiftReduceConflict(state_id, symbol)},
                        action_table |-> action_table]
                  ELSE [errs |-> {},
                        action_table |->
                            MapInsert(action_table, key, Shift(transitions[key]))]
             ELSE [errs |-> {}, action_table |-> action_table]
    ELSE IF item.production.lhs = augmented_start
    THEN [errs |-> {},
          action_table |-> MapInsert(action_table, <<state_id, EndMarker>>, Accept)]
    ELSE LET follow_a == GetOrEmpty(follow_sets, item.production.lhs)
         IN  [errs |-> {},
              action_table |->
                  [key \in DOMAIN action_table \cup
                           {<<state_id, s>> : s \in follow_a} |->
                      IF key[1] = state_id /\ key[2] \in follow_a
                      THEN Reduce(item.production) ELSE action_table[key]]]

\* build_tables: the body of `for item in state` for one item.  errs is the set
\* of errors the body can return (the loop over FOLLOW(A) walks a HashSet and
\* returns at the first occupied cell it meets); empty when the body completes
build_tables_item(action_table, transitions, follow_sets, state_id, item) ==
    IF ~is_reduce_item(item)
    THEN LET symbol == symbol_after_dot(item)[1]
             key == <<state_id, symbol>>
         IN  IF (is_terminal(symbol) \/ is_end_marker(symbol))
                /\ key \in DOMAIN transitions
             THEN IF key \in DOMAIN action_table
                  THEN [errs |-> {SLR1ShiftReduceConflict(state_id, symbol)},
                        action_table |-> action_table]
                  ELSE [errs |-> {},
                        action_table |->
                            MapInsert(action_table, key, Shift(transitions[key]))]
             ELSE [errs |-> {}, action_table |-> action_table]
    ELSE IF item.production.lhs = augmented_start
    THEN [errs |-> {},
          action_table |-> MapInsert(action_table, <<state_id, EndMarker>>, Accept)]
    ELSE LET follow_a == GetOrEmpty(follow_sets, item.production.lhs)
             occupied == {s \in follow_a : <<state_id, s>> \in DOMAIN action_table}
             shifts == {s \in occupied : action_table[<<state_id, s>>].type = "Shift"}
             reduces == {s \in occupied : action_table[<<state_id, s>>].type = "Reduce"}
         IN  IF shifts \cup reduces # {}
             THEN [errs |->
                       {SLR1ShiftReduceConflict(state_id, s) : s \in shifts} \cup
                       {SLR1ReduceReduceConflict(state_id, s,
                            action_table[<<state_id, s>>].production,
                            item.production) : s \in reduces},
                   action_table |-> action_table]
             ELSE [errs |-> {},
                   action_table |->
                       [key \in DOMAIN action_table \cup
                                {<<state_id, s>> : s \in follow_a} |->
                           IF key \in DOMAIN action_table THEN action_table[key]
                           ELSE Reduce(item.production)]]

\* build_tables: the GOTO entries of one state
build_tables_goto(goto_table, transitions, state_id) ==
    LET keys == {key \in DOMAIN transitions :
                   key[1] = state_id /\ is_nonterminal(key[2])}
    IN  [key \in DOMAIN goto_table \cup keys |->
            IF key \in keys THEN transitions[key] ELSE goto_table[key]]

\* SLR1Parser::parse: the state before the loop
slr1_parse_init ==
    [stack |-> <<0>>, symbol_stack |-> <<>>, input_index |-> 0, result |-> "running"]

\* Vec::pop once more than asked
PopOneMore(stack, n) ==
    IF n + 1 >= Len(stack) THEN <<>> ELSE SubSeq(stack, 1, Len(stack) - n - 1)

\* Vec::pop n times: popping an empty Vec does nothing
PopN(stack, n) ==
    IF n >= Len(stack) THEN <<>> ELSE SubSeq(stack, 1, Len(stack) - n)

\* one iteration of the loop of SLR1Parser::parse
slr1_parse_step(action_table, goto_table, input_symbols, c) ==
    IF c.input_index >= Len(input_symbols) THEN [c EXCEPT !.result = "false"]
    ELSE LET state == c.stack[Len(c.stack)]
             current_symbol == input_symbols[c.input_index + 1]
             key == <<state, current_symbol>>
         IN  IF key \notin DOMAIN action_table THEN [c EXCEPT !.result = "false"]
             ELSE LET action == action_table[key]
                  IN  CASE action.type = "Accept" -> [c EXCEPT !.result = "true"]
                        [] action.type = "Shift" ->
                             [c EXCEPT !.stack = Append(@, action.next_state),
                                       !.symbol_stack = Append(@, current_symbol),
                                       !.input_index = @ + 1]
                        [] action.type = "Reduce" ->
                             LET production == action.production
                                 rhs_len == IF production.rhs = <<Epsilon>> THEN 0
                                            ELSE Len(production.rhs)
                                 stack == PopN(c.stack, rhs_len)
                                 symbol_stack == PopN(c.symbol_stack, rhs_len)
                             IN  IF stack = <<>>
                                 THEN [c EXCEPT !.stack = stack,
                                                !.symbol_stack = symbol_stack,
                                                !.result = "panic"]
                                 ELSE LET goto_key == <<stack[Len(stack)],
                                                        production.lhs>>
                                      IN  IF goto_key \in DOMAIN goto_table
                                          THEN [c EXCEPT
                                                 !.stack = Append(stack,
                                                              goto_table[goto_key]),
                                                 !.symbol_stack =
                                                     Append(symbol_stack,
                                                            production.lhs)]
                                          ELSE [c EXCEPT !.stack = stack,
                                                   !.symbol_stack = symbol_stack,
                                                   !.result = "false"]

(***************************************************************************)
(* The grammar texts and the input strings the model is run on             *)
(***************************************************************************)
\* integration_tests.rs: test_example1_slr1_grammar
Example1 ==
    <<<<"3">>,
      <<"S", " ", "-", ">", " ", "S", "+", "T", " ", "T">>,
      <<"T", " ", "-", ">", " ", "T", "*", "F", " ", "F">>,
      <<"F", " ", "-", ">", " ", "(", "S", ")", " ", "i">>>>

\* integration_tests.rs: test_example2_both_ll1_and_slr1
Example2 ==
    <<<<"3">>,
      <<"S", " ", "-", ">", " ", "A", "B">>,
      <<"A", " ", "-", ">", " ", "a", "A", " ", "d">>,
      <<"B", " ", "-", ">", " ", "b", "B", "c", " ", "e">>>>

\* integration_tests.rs: test_example3_neither_ll1_nor_slr1
Example3 ==
    <<<<"2">>,
      <<"S", " ", "-", ">", " ", "A">>,
      <<"A", " ", "-", ">", " ", "A", " ", "b">>>>

\* ll1_tests.rs: test_ll1_conflict_detection
LeftRecursiveTest ==
    <<<<"2">>,
      <<"S", " ", "-", ">", " ", "S", "a", " ", "b">>,
      <<"A", " ", "-", ">", " ", "a">>>>

\* ll1_tests.rs: test_ll1_epsilon_production
EpsilonTest ==
    <<<<"2">>,
      <<"S", " ", "-", ">", " ", "A">>,
      <<"A", " ", "-", ">", " ", "a", " ", "e">>>>

\* slr1_tests.rs: test_slr1_conflict_detection
ChainTest ==
    <<<<"3">>,
      <<"S", " ", "-", ">", " ", "A", " ", "a">>,
      <<"A", " ", "-", ">", " ", "B">>,
      <<"B", " ", "-", ">", " ", "b">>>>

ExampleTexts ==
    {Example1, Example2, Example3, LeftRecursiveTest, EpsilonTest, ChainTest}

\* texts Grammar::parse refuses
MalformedTexts ==
    {<<>>, <<<<"x">>>>, <<<<"2">>, <<"S", " ", "-", ">", " ", "a">>>>,
     <<<<"1">>, <<"S", " ", "a">>>>, <<<<"0">>>>}

\* a production line with two separators
TwoArrowsText ==
    <<<<"1">>,
      <<"S", " ", "-", ">", " ", "a", " ", "-", ">", " ", "b">>>>

\* a production line with nothing before the separator
EmptyLhsText ==
    <<<<"1">>,
      <<" ", "-", ">", " ", "a">>>>

\* a production line with nothing after the separator
NoAlternativeText ==
    <<<<"1">>,
      <<"S", " ", "-", ">", " ">>>>

\* a good production line, then one without a separator
SecondLineBadText ==
    <<<<"2">>,
      <<"S", " ", "-", ">", " ", "a">>,
      <<"A", " ", "b">>>>

\* a count line of eleven digits
WideCountText ==
    <<<<"1", "0", "0", "0", "0", "0", "0", "0", "0", "0", "0">>,
      <<"S", " ", "-", ">", " ", "a">>>>

\* a count line above usize::MAX
OverflowCountText ==
    <<<<"9", "9", "9", "9", "9", "9", "9", "9", "9", "9", "9", "9", "9", "9", "9", "9", "9", "9", "9", "9">>,
      <<"S", " ", "-", ">", " ", "a">>>>

\* a count line with blanks around the number and a line after the n-th
SpacedCountText ==
    <<<<" ", "1", " ">>,
      <<"S", " ", "-", ">", " ", "a">>,
      <<"A", " ", "b">>>>

\* a count line with a sign
PlusCountText ==
    <<<<"+", "1">>,
      <<"S", " ", "-", ">", " ", "b">>>>

\* a production line whose left side is a lowercase letter
LowercaseLhsText ==
    <<<<"1">>,
      <<"a", " ", "-", ">", " ", "b">>>>

\* a left side that is a terminal of another production
TerminalLhsText ==
    <<<<"2">>,
      <<"S", " ", "-", ">", " ", "a">>,
      <<"a", " ", "-", ">", " ", "b">>>>

\* a left side that is the letter e
EpsilonLhsText ==
    <<<<"2">>,
      <<"S", " ", "-", ">", " ", "a">>,
      <<"e", " ", "-", ">", " ", "a">>>>

\* a left side that is the character $
EndMarkerLhsText ==
    <<<<"2">>,
      <<"S", " ", "-", ">", " ", "a">>,
      <<"$", " ", "-", ">", " ", "a">>>>

\* grammar_tests.rs: test_parse_alternatives
AlternativesTest ==
    <<<<"1">>,
      <<"S", " ", "-", ">", " ", "a", " ", "b", " ", "c">>>>

\* grammar_tests.rs: test_get_productions
GetProductionsTest ==
    <<<<"2">>,
      <<"S", " ", "-", ">", " ", "A", "B", " ", "A", "C">>,
      <<"A", " ", "-", ">", " ", "a">>>>

\* the productions of S on two lines, with a line of A between them, and runs
\* of blanks and a tab between the alternatives
InterleavedText ==
    <<<<"3">>,
      <<"S", " ", " ", "-", ">", " ", " ", "a", " ", "\t", "A">>,
      <<"A", " ", "-", ">", " ", "e", " ", " ", "b", " ">>,
      <<"S", "-", ">", "c">>>>

\* a nonterminal that occurs on a right-hand side only
RhsOnlyText ==
    <<<<"1">>,
      <<"S", " ", "-", ">", " ", "a", "B">>>>

\* two alternatives that begin with the same terminal
SharedPrefixText ==
    <<<<"1">>,
      <<"S", " ", "-", ">", " ", "a", "b", " ", "a", "c">>>>

\* an alternative written twice on a line
DuplicateAlternativeText ==
    <<<<"1">>,
      <<"S", " ", "-", ">", " ", "a", " ", "a">>>>

\* a production that reaches one cell through FIRST and through FOLLOW
NullableChainText ==
    <<<<"3">>,
      <<"S", " ", "-", ">", " ", "A", "a">>,
      <<"A", " ", "-", ">", " ", "B">>,
      <<"B", " ", "-", ">", " ", "a", " ", "e">>>>

\* S -> A | B, A -> C, B -> C: after C, two completed items share the
\* lookahead $
ReduceReduceText ==
    <<<<"3">>,
      <<"S", " ", "-", ">", " ", "A", " ", "B">>,
      <<"A", " ", "-", ">", " ", "C">>,
      <<"B", " ", "-", ">", " ", "C">>>>

\* S -> SS | a: after SS, a shift on a and a reduce on a in FOLLOW(S)
ShiftReduceText ==
    <<<<"1">>, <<"S", " ", "-", ">", " ", "S", "S", " ", "a">>>>

\* S -> S | a: after S, the completed start production and the completed
\* S -> S share the lookahead $
AcceptReduceText ==
    <<<<"1">>, <<"S", " ", "-", ">", " ", "S", " ", "a">>>>

\* the texts Grammar::parse must refuse, one per error
RefusedTexts ==
    {TwoArrowsText, EmptyLhsText, NoAlternativeText, SecondLineBadText,
     WideCountText, OverflowCountText, <<UsizeMaxDigits>>}

\* texts for single features of the grammar format and of the two builds
FeatureTexts ==
    {SpacedCountText, PlusCountText, LowercaseLhsText, TerminalLhsText,
     EpsilonLhsText, EndMarkerLhsText, AlternativesTest, GetProductionsTest,
     InterleavedText, RhsOnlyText, SharedPrefixText, DuplicateAlternativeText,
     NullableChainText, ReduceReduceText, ShiftReduceText,
     AcceptReduceText}

\* the production lines the enumerated grammars are made of
LinePool ==
    {<<"S", " ", "-", ">", " ", "a">>,
     <<"S", " ", "-", ">", " ", "b">>,
     <<"S", " ", "-", ">", " ", "e">>,
     <<"S", " ", "-", ">", " ", "S", "a">>,
     <<"S", " ", "-", ">", " ", "A", "b">>,
     <<"S", " ", "-", ">", " ", "a", "e">>,
     <<"S", " ", "-", ">", " ", "a", "S">>,
     <<"S", " ", "-", ">", " ", "S", "$">>,
     <<"S", " ", "-", ">", " ", "A">>,
     <<"A", " ", "-", ">", " ", "a">>,
     <<"A", " ", "-", ">", " ", "e">>}

MaxLines == 2

DigitChar(n) == CHOOSE c \in Digits : DigitVal(c) = n

\* every text of 1..MaxLines production lines of LinePool, with its count line
EnumeratedTexts ==
    UNION {{<<<<DigitChar(n)>>>> \o body : body \in [1..n -> LinePool]} :
           n \in 1..MaxLines}

GrammarTexts ==
    ExampleTexts \cup MalformedTexts \cup RefusedTexts \cup FeatureTexts
        \cup EnumeratedTexts

MaxInputLen == 2

InputChars == {"a", "b", "e", "S", "$"}

ShortInputs == UNION {[1..n -> InputChars] : n \in 0..MaxInputLen}

\* the strings of the tests on Example1
Example1Inputs ==
    {<<"i">>, <<"i", "+", "i">>, <<"i", "*", "i">>, <<"i", "+", "i", "*", "i">>,
     <<"(", "i", "+", "i", ")", "*", "(", "i", "+", "i", ")">>,
     <<"(", "(", "i", ")", ")">>, <<"(", "i", ")">>, <<"(">>, <<")">>, <<"i", "+">>,
     <<"+", "i">>, <<"i", "+", "+", "i">>, <<"(", "i", "+", "i", ")", "*", "i", ")">>,
     <<"(", "i", "+", "i", ")", "*", "i">>, <<"i", "i">>}

\* the strings of the tests on Example2
Example2Inputs ==
    {<<"d">>, <<"a", "d", "b", "c">>, <<"a", "d">>, <<"a", "a", "d">>,
     <<"d", "b", "c">>, <<"a">>, <<"b">>, <<"a", "b", "c">>, <<"d", "d">>}

InputsFor(text) ==
    ShortInputs \cup (IF text = Example1 THEN Example1Inputs ELSE {})
                \cup (IF text = Example2 THEN Example2Inputs ELSE {})

(***************************************************************************)
(* The program as a state machine: one grammar text is analysed the way    *)
(* cli::run and the tests do it (Grammar::parse, compute_first_sets,       *)
(* compute_follow_sets, LL1Parser::build, SLR1Parser::build), then strings *)
(* are handed to the recognizers that were built.                          *)
(***************************************************************************)
VARIABLES
    pc,            \* where the analysis stands
    text,          \* the lines given to Grammar::parse
    parsed,        \* the Result of Grammar::parse
    first_sets,    \* the result of compute_first_sets
    follow_sets,   \* the result of compute_follow_sets
    ll1,           \* the Result of LL1Parser::build
    lr0,           \* the result of build_lr0_automaton: states, transitions
    bt,            \* build_tables: the state being scanned, its items done
    action_table,  \* build_tables / SLR1Parser: ACTION
    goto_table,    \* build_tables / SLR1Parser: GOTO
    slr1,          \* the Result of SLR1Parser::build
    input,         \* the string handed to parse
    ll1_run,       \* LL1Parser::parse: stack, input_index, result
    slr1_run       \* SLR1Parser::parse: stack, symbol_stack, input_index, result

vars ==
    <<pc, text, parsed, first_sets, follow_sets, ll1, lr0, bt, action_table,
      goto_table, slr1, input, ll1_run, slr1_run>>

grammar == parsed.val

NotBuilt == [ok |-> FALSE, table |-> <<>>, err |-> <<>>]

Idle == [stack |-> <<>>, input_index |-> 0, result |-> "idle"]

Init ==
    /\ text \in GrammarTexts
    /\ pc = "parse"
    /\ parsed = [ok |-> FALSE, err |-> "", val |-> NoGrammar]
    /\ first_sets = <<>>
    /\ follow_sets = <<>>
    /\ ll1 = NotBuilt
    /\ lr0 = [states |-> <<>>, transitions |-> <<>>]
    /\ bt = [state_id |-> 0, done |-> {}]
    /\ action_table = <<>>
    /\ goto_table = <<>>
    /\ slr1 = [ok |-> FALSE, err |-> <<>>]
    /\ input = <<>>
    /\ ll1_run = Idle
    /\ slr1_run = Idle

\* Grammar::parse(&lines)
ParseGrammar ==
    /\ pc = "parse"
    /\ parsed' = Grammar_parse(text)
    /\ pc' = IF parsed'.ok THEN "first"
             ELSE IF parsed'.err = "panic" THEN "panicked" ELSE "rejected"
    /\ UNCHANGED <<text, first_sets, follow_sets, ll1, lr0, bt, action_table,
                   goto_table, slr1, input, ll1_run, slr1_run>>

\* compute_first_sets(&grammar)
ComputeFirst ==
    /\ pc = "first"
    /\ first_sets' = compute_first_sets(grammar)
    /\ pc' = "follow"
    /\ UNCHANGED <<text, parsed, follow_sets, ll1, lr0, bt, action_table,
                   goto_table, slr1, input, ll1_run, slr1_run>>

\* compute_follow_sets(&grammar, &first_sets)
ComputeFollow ==
    /\ pc = "follow"
    /\ ~follow_panics(grammar)
    /\ follow_sets' = compute_follow_sets(grammar, first_sets)
    /\ pc' = "ll1"
    /\ UNCHANGED <<text, parsed, first_sets, ll1, lr0, bt, action_table,
                   goto_table, slr1, input, ll1_run, slr1_run>>

\* compute_follow_sets: the unwrap on the start symbol's entry panics
ComputeFollowPanics ==
    /\ pc = "follow"
    /\ follow_panics(grammar)
    /\ pc' = "panicked"
    /\ UNCHANGED <<text, parsed, first_sets, follow_sets, ll1, lr0, bt,
                   action_table, goto_table, slr1, input, ll1_run, slr1_run>>

\* LL1Parser::build(grammar.clone(), first_sets.clone(), follow_sets.clone())
BuildLL1 ==
    /\ pc = "ll1"
    /\ ll1' \in LL1Parser_build(grammar, first_sets, follow_sets)
    /\ pc' = "lr0"
    /\ UNCHANGED <<text, parsed, first_sets, follow_sets, lr0, bt, action_table,
                   goto_table, slr1, input, ll1_run, slr1_run>>

\* SLR1Parser::build: build_lr0_automaton
BuildLR0 ==
    /\ pc = "lr0"
    /\ \E order \in SymbolOrders :
           lr0' = build_lr0_automaton(grammar, start_production(grammar), order)
    /\ bt' = [state_id |-> 0, done |-> {}]
    /\ pc' = "tables"
    /\ UNCHANGED <<text, parsed, first_sets, follow_sets, ll1, action_table,
                   goto_table, slr1, input, ll1_run, slr1_run>>

\* SLR1Parser::build_tables: one item of the state being scanned; the items of a
\* state are a HashSet, walked in any order.  An error ends the build.
BuildTablesItem ==
    /\ pc = "tables"
    /\ \E item \in lr0.states[bt.state_id + 1] \ bt.done :
           LET r == build_tables_item(action_table, lr0.transitions, follow_sets,
                                      bt.state_id, item)
           IN  IF r.errs = {}
               THEN /\ action_table' = r.action_table
                    /\ bt' = [bt EXCEPT !.done = @ \cup {item}]
                    /\ UNCHANGED <<pc, slr1, goto_table>>
               ELSE /\ \E e \in r.errs : slr1' = [ok |-> FALSE, err |-> e]
                    /\ action_table' = <<>>
                    /\ goto_table' = <<>>
                    /\ pc' = "ready"
                    /\ UNCHANGED bt
    /\ UNCHANGED <<text, parsed, first_sets, follow_sets, ll1, lr0, input,
                   ll1_run, slr1_run>>

\* SLR1Parser::build_tables: the GOTO entries of the state scanned, then the next
\* state, or the end of the build
BuildTablesGoto ==
    /\ pc = "tables"
    /\ bt.done = lr0.states[bt.state_id + 1]
    /\ goto_table' = build_tables_goto(goto_table, lr0.transitions, bt.state_id)
    /\ IF bt.state_id + 1 < Len(lr0.states)
       THEN /\ bt' = [state_id |-> bt.state_id + 1, done |-> {}]
            /\ UNCHANGED <<pc, slr1>>
       ELSE /\ slr1' = [ok |-> TRUE, err |-> <<>>]
            /\ pc' = "ready"
            /\ UNCHANGED bt
    /\ UNCHANGED <<text, parsed, first_sets, follow_sets, ll1, lr0, action_table,
                   input, ll1_run, slr1_run>>

\* a caller hands a string to parse of every recognizer that was built
StartParse ==
    /\ pc = "ready"
    /\ ll1.ok \/ slr1.ok
    /\ \E w \in InputsFor(text) : input' = w
    /\ ll1_run' = IF ll1.ok THEN ll1_parse_init(grammar) ELSE Idle
    /\ slr1_run' = IF slr1.ok THEN slr1_parse_init ELSE Idle
    /\ pc' = "parsing"
    /\ UNCHANGED <<text, parsed, first_sets, follow_sets, ll1, lr0, bt,
                   action_table, goto_table, slr1>>

\* the string as the recognizers see it: its symbols, then EndMarker
input_symbols == Append(string_to_symbols(input), EndMarker)

\* LL1Parser::parse: one iteration of its loop
LL1ParseStep ==
    /\ pc = "parsing"
    /\ ll1_run.result = "running"
    /\ ll1_run' = ll1_parse_step(ll1.table, input_symbols, ll1_run)
    /\ UNCHANGED <<pc, text, parsed, first_sets, follow_sets, ll1, lr0, bt,
                   action_table, goto_table, slr1, input, slr1_run>>

\* SLR1Parser::parse: one iteration of its loop
SLR1ParseStep ==
    /\ pc = "parsing"
    /\ ll1_run.result # "running"
    /\ slr1_run.result = "running"
    /\ slr1_run' = slr1_parse_step(action_table, goto_table, input_symbols, slr1_run)
    /\ UNCHANGED <<pc, text, parsed, first_sets, follow_sets, ll1, lr0, bt,
                   action_table, goto_table, slr1, input, ll1_run>>

\* both calls have returned; the caller may hand over the next string
Return ==
    /\ pc = "parsing"
    /\ ll1_run.result # "running"
    /\ slr1_run.result # "running"
    /\ pc' = "ready"
    /\ input' = <<>>
    /\ ll1_run' = Idle
    /\ slr1_run' = Idle
    /\ UNCHANGED <<text, parsed, first_sets, follow_sets, ll1, lr0, bt,
                   action_table, goto_table, slr1>>

Next ==
    \/ ParseGrammar
    \/ ComputeFirst
    \/ ComputeFollow
    \/ ComputeFollowPanics
    \/ BuildLL1
    \/ BuildLR0
    \/ BuildTablesItem
    \/ BuildTablesGoto
    \/ StartParse
    \/ LL1ParseStep
    \/ SLR1ParseStep
    \/ Return

Spec == Init /\ [][Next]_vars

(***************************************************************************)
(* The same analysis with a caller that hands a string to parse a second   *)
(* time after the first calls have returned                                *)
(***************************************************************************)
\* the loop of LL1Parser::parse from one of its states to its return
RECURSIVE ll1_parse_loop(_, _, _)
ll1_parse_loop(table, symbols, c) ==
    IF c.result = "running"
    THEN ll1_parse_loop(table, symbols, ll1_parse_step(table, symbols, c))
    ELSE c

\* a call that runs the loop on the stack the call before has left, instead of
\* the stack [EndMarker, start symbol] it is given
ll1_parse_on_kept_stack(table, symbols, c) ==
    LET kept == [c EXCEPT !.stack = ll1_run.stack]
    IN  IF kept.stack = <<>> THEN [kept EXCEPT !.result = "false"]
        ELSE ll1_parse_loop(table, symbols, kept)

\* LL1Parser::parse as one call
ll1_parse_call(table, symbols, c) == ll1_parse_loop(table, symbols, c)

\* SLR1Parser::parse as one call: its loop from one of its states to its return
RECURSIVE slr1_parse_call(_, _, _, _)
slr1_parse_call(actions, gotos, symbols, c) ==
    IF c.result = "running"
    THEN slr1_parse_call(actions, gotos, symbols,
                         slr1_parse_step(actions, gotos, symbols, c))
    ELSE c

\* both calls have returned, and the caller hands the same string to parse again
ParseAgain ==
    /\ pc = "parsing"
    /\ ll1_run.result # "running"
    /\ slr1_run.result # "running"
    /\ ll1_run' = IF ll1.ok
                  THEN ll1_parse_call(ll1.table, input_symbols, ll1_parse_init(grammar))
                  ELSE Idle
    /\ slr1_run' = IF slr1.ok
                   THEN slr1_parse_call(action_table, goto_table, input_symbols,
                                        slr1_parse_init)
                   ELSE Idle
    /\ pc' = "parsed_again"
    /\ UNCHANGED <<text, parsed, first_sets, follow_sets, ll1, lr0, bt,
                   action_table, goto_table, slr1, input>>

\* the second calls have returned; the caller may hand over the next string
ReturnAgain ==
    /\ pc = "parsed_again"
    /\ pc' = "ready"
    /\ input' = <<>>
    /\ ll1_run' = Idle
    /\ slr1_run' = Idle
    /\ UNCHANGED <<text, parsed, first_sets, follow_sets, ll1, lr0, bt,
                   action_table, goto_table, slr1>>

NextPure ==
    \/ ParseGrammar
    \/ ComputeFirst
    \/ ComputeFollow
    \/ ComputeFollowPanics
    \/ BuildLL1
    \/ BuildLR0
    \/ BuildTablesItem
    \/ BuildTablesGoto
    \/ StartParse
    \/ LL1ParseStep
    \/ SLR1ParseStep
    \/ Return
    \/ ParseAgain
    \/ ReturnAgain

SpecPure == Init /\ [][NextPure]_vars

(***************************************************************************)
(* Notions the properties are stated in                                    *)
(***************************************************************************)
\* LL1Parser::build has returned
LL1Decided == pc \in {"lr0", "tables", "ready", "parsing"}

\* SLR1Parser::build has returned as well
SLR1Decided == pc \in {"ready", "parsing"}

\* LL1Parser::parse has ended on `input`
LL1Returned == pc = "parsing" /\ ll1_run.result \notin {"running", "idle"}

\* SLR1Parser::parse has ended on `input`
SLR1Returned == pc = "parsing" /\ slr1_run.result \notin {"running", "idle"}

\* the input holds a character that is not a terminal of the grammar
HasForeignChar ==
    \E i \in 1..Len(input) : from_char(input[i]) \notin grammar.terminals

\* the strings of at most n symbols a sequence of symbols derives, given the
\* strings `lang` its nonterminals derive; Epsilon stands for the empty string
RECURSIVE SeqLang(_, _, _)
SeqLang(lang, symbols, n) ==
    IF symbols = <<>> THEN {<<>>}
    ELSE LET heads == IF is_nonterminal(Head(symbols))
                      THEN GetOrEmpty(lang, Head(symbols))
                      ELSE IF is_epsilon(Head(symbols)) THEN {<<>>}
                      ELSE {<<Head(symbols)>>}
             tails == SeqLang(lang, Tail(symbols), n)
         IN  {h \o t : <<h, t>> \in {x \in heads \X tails : Len(x[1]) + Len(x[2]) <= n}}

RECURSIVE LangLoop(_, _, _)
LangLoop(g, lang, n) ==
    LET next == [a \in DOMAIN lang |->
                    lang[a] \cup
                    UNION {SeqLang(lang, g.productions[i].rhs, n) :
                             i \in {j \in 1..Len(g.productions) :
                                      g.productions[j].lhs = a}}]
    IN  IF next = lang THEN lang ELSE LangLoop(g, next, n)

\* w is a sentence of the grammar: the start symbol derives it
Derivable(g, w) ==
    /\ g.start_symbol \in g.nonterminals
    /\ string_to_symbols(w) \in
           LangLoop(g, [a \in g.nonterminals |-> {}], Len(w))[g.start_symbol]

(***************************************************************************)
(* The properties                                                          *)
(***************************************************************************)
\* both recognizers have returned on `input`
BothReturned ==
    /\ pc = "parsing"
    /\ ll1_run.result \notin {"running", "idle"}
    /\ slr1_run.result \notin {"running", "idle"}

\* C1: on a grammar for which LL1Parser::build and SLR1Parser::build both
\* succeed, LL1Parser::parse and SLR1Parser::parse return the same boolean on
\* every input string.
C1_RecognizersAgree ==
    (ll1.ok /\ slr1.ok /\ BothReturned) => ll1_run.result = slr1_run.result

Example2Accepted ==
    {<<"d">>, <<"a", "d", "b", "c">>, <<"a", "d">>, <<"a", "a", "d">>,
     <<"d", "b", "c">>}

Example2Rejected == {<<"a">>, <<"b">>, <<"a", "b", "c">>, <<"d", "d">>}

\* C2: for S -> AB, A -> aA | d, B -> bBc | e both builds succeed, and both
\* recognizers return true for "d", "adbc", "ad", "aad", "dbc" and false for
\* "a", "b", "abc", "dd".
C2_Example2 ==
    text = Example2 =>
        /\ LL1Decided => ll1.ok
        /\ SLR1Decided => slr1.ok
        /\ (BothReturned /\ input \in Example2Accepted) =>
               ll1_run.result = "true" /\ slr1_run.result = "true"
        /\ (BothReturned /\ input \in Example2Rejected) =>
               ll1_run.result = "false" /\ slr1_run.result = "false"

Example1Accepted ==
    {<<"i">>, <<"i", "+", "i">>, <<"i", "*", "i">>, <<"i", "+", "i", "*", "i">>,
     <<"(", "i", "+", "i", ")", "*", "(", "i", "+", "i", ")">>,
     <<"(", "(", "i", ")", ")">>}

Example1Rejected ==
    {<<>>, <<"(">>, <<")">>, <<"i", "+">>, <<"+", "i">>, <<"i", "+", "+", "i">>,
     <<"(", "i", "+", "i", ")", "*", "i", ")">>}

\* C3: for S -> S+T | T, T -> T*F | F, F -> (S) | i SLR1Parser::build succeeds
\* and LL1Parser::build fails; the SLR(1) recognizer returns true for "i",
\* "i+i", "i*i", "i+i*i", "(i+i)*(i+i)", "((i))" and false for "", "(", ")",
\* "i+", "+i", "i++i", "(i+i)*i)".
C3_Example1 ==
    text = Example1 =>
        /\ LL1Decided => ~ll1.ok
        /\ SLR1Decided => slr1.ok
        /\ (SLR1Returned /\ input \in Example1Accepted) => slr1_run.result = "true"
        /\ (SLR1Returned /\ input \in Example1Rejected) => slr1_run.result = "false"

\* C3 happens: the SLR(1) recognizer built for Example1 has accepted
\* "(i+i)*(i+i)"
C3_Witness ==
    /\ text = Example1
    /\ SLR1Returned
    /\ input = <<"(", "i", "+", "i", ")", "*", "(", "i", "+", "i", ")">>
    /\ slr1_run.result = "true"
    /\ ~ll1.ok

\* C4: for the lines `S -> A` and `A -> A b` LL1Parser::build returns an error
\* and SLR1Parser::build returns an error.
C4_Example3 ==
    text = Example3 =>
        /\ LL1Decided => ~ll1.ok /\ ll1.err.kind = "LL1Conflict"
        /\ SLR1Decided =>
               /\ ~slr1.ok
               /\ slr1.err.kind \in {"SLR1ShiftReduceConflict",
                                      "SLR1ReduceReduceConflict"}

\* C4 happens: both builds have returned their error on Example3
C4_Witness ==
    /\ text = Example3
    /\ pc = "ready"
    /\ ~ll1.ok
    /\ ll1.err.kind = "LL1Conflict"
    /\ ~slr1.ok
    /\ slr1.err.kind = "SLR1ReduceReduceConflict"

\* C5: on a grammar for which LL1Parser::build succeeds and for a string w made
\* only of the grammar's terminals, LL1Parser::parse(w) returns true exactly
\* when the start symbol derives w (the empty string included).
C5_LL1Language ==
    (ll1.ok /\ LL1Returned /\ ~HasForeignChar) =>
        ((ll1_run.result = "true") <=> Derivable(grammar, input))

\* the grammar S -> Sa, A -> a
LeftRecursionOnly ==
    <<<<"2">>, <<"S", " ", "-", ">", " ", "S", "a">>,
      <<"A", " ", "-", ">", " ", "a">>>>

\* C6, as stated: LL1Parser::build fails on the grammar S -> Sa, A -> a.
C6_Original ==
    (text = LeftRecursionOnly /\ LL1Decided) => ~ll1.ok

\* C6, amended: LL1Parser::build succeeds on S -> Sa, A -> a (FIRST(S) is empty,
\* S -> Sa claims no cell, the table is the single entry M[A, a] = A -> a); it
\* fails with an LL1Conflict on S -> Sa | b, A -> a.
C6_Amended ==
    /\ (text = LeftRecursionOnly /\ LL1Decided) =>
           /\ ll1.ok
           /\ first_sets[Nonterminal("S")] = {}
           /\ DOMAIN ll1.table = {<<Nonterminal("A"), Terminal("a")>>}
    /\ (text = LeftRecursiveTest /\ LL1Decided) =>
           ~ll1.ok /\ ll1.err.kind = "LL1Conflict"

\* C6 happens: LL1Parser::build has returned a recognizer for S -> Sa, A -> a
C6_Witness ==
    /\ text = LeftRecursionOnly
    /\ pc = "ready"
    /\ ll1.ok
    /\ ll1.table[<<Nonterminal("A"), Terminal("a")>>] =
           Production(Nonterminal("A"), <<Terminal("a")>>)

\* a nonterminal A has a production A -> A alpha and another production
\* A -> beta whose FIRST set holds a terminal
GuardedLeftRecursion ==
    \E i, j \in 1..Len(grammar.productions) :
        /\ i # j
        /\ is_nonterminal(grammar.productions[i].lhs)
        /\ grammar.productions[i].lhs = grammar.productions[j].lhs
        /\ grammar.productions[i].rhs[1] = grammar.productions[i].lhs
        /\ \E t \in first_of_string(first_sets, grammar.productions[j].rhs) :
               is_terminal(t)

\* C7: when a nonterminal A has a directly left-recursive production
\* A -> A alpha and another alternative A -> beta whose FIRST set contains a
\* terminal, LL1Parser::build returns an LL1Conflict error.
C7_LeftRecursionConflict ==
    (LL1Decided /\ GuardedLeftRecursion) =>
        ~ll1.ok /\ ll1.err.kind = "LL1Conflict"

\* C7 happens: the build has returned the conflict on S -> Sa | b, A -> a, for
\* the cell M[S, b]
C7_Witness ==
    /\ text = LeftRecursiveTest
    /\ LL1Decided
    /\ GuardedLeftRecursion
    /\ ~ll1.ok
    /\ ll1.err.nonterminal = "S"
    /\ ll1.err.terminal = "b"

\* C8: for every grammar Grammar::parse accepts, compute_follow_sets returns a
\* result, and FOLLOW(start symbol) in it contains EndMarker.
C8_FollowOfStart ==
    (parsed.ok /\ pc \notin {"parse", "first", "follow"}) =>
        /\ pc # "panicked"
        /\ grammar.start_symbol \in DOMAIN follow_sets
        /\ EndMarker \in follow_sets[grammar.start_symbol]

\* C9: LL1Parser::parse returns false for every input that contains a character
\* that is not a terminal of the grammar.
C9_LL1RejectsForeign ==
    (ll1.ok /\ pc = "parsing" /\ ll1_run.result \notin {"running", "idle"}
        /\ HasForeignChar) => ll1_run.result = "false"

\* C10: SLR1Parser::parse returns false for every input that contains a
\* character that is not a terminal of the grammar, and accepts only on the
\* EndMarker it appended itself (the last of input_symbols).
C10_SLR1RejectsForeign ==
    (slr1.ok /\ pc = "parsing" /\ slr1_run.result \notin {"running", "idle"}) =>
        /\ HasForeignChar => slr1_run.result = "false"
        /\ slr1_run.result = "true" => slr1_run.input_index = Len(input)

\* the number of occurrences of the separator "->" in a line
ArrowCount(l) ==
    Cardinality({i \in 1..(Len(l) - 1) : l[i] = "-" /\ l[i + 1] = ">"})

\* where the separator of a line with one separator begins
ArrowAt(l) == CHOOSE i \in 1..(Len(l) - 1) : l[i] = "-" /\ l[i + 1] = ">"

\* the line does not hold exactly one "->", or nothing but blanks stands before it
BadProductionLine(l) ==
    \/ ArrowCount(l) # 1
    \/ \A i \in 1..(ArrowAt(l) - 1) : IsWhitespace(l[i])

\* nothing but blanks stands after the separator: the line has no alternative
NoAlternative(l) ==
    \A i \in (ArrowAt(l) + 2)..Len(l) : IsWhitespace(l[i])

\* the error the format rules give for a text; "" when they give none
ExpectedParseError(lines) ==
    IF lines = <<>> THEN "EmptyInput"
    ELSE LET n == ParseUsize(Trim(lines[1]))
         IN  IF ~n.ok THEN "InvalidFormat"
             ELSE IF n.wide \/ Len(lines) < n.n + 1 THEN "NotEnoughProductions"
             ELSE IF \E i \in 2..(n.n + 1) : BadProductionLine(lines[i])
             THEN "InvalidProduction"
             ELSE IF \A i \in 2..(n.n + 1) : NoAlternative(lines[i])
             THEN "EmptyInput"
             ELSE ""

\* Grammar::parse has ended
ParseEnded == pc # "parse"

\* C11: Grammar::parse returns no grammar and the error of the format rules:
\* EmptyInput for no lines, InvalidFormat when line 0 is no count,
\* NotEnoughProductions when fewer than n+1 lines are given, InvalidProduction
\* when one of the n production lines has not exactly one "->" or has an empty
\* left side, EmptyInput when the n lines hold no alternative.
C11_ParseErrors ==
    (ParseEnded /\ ExpectedParseError(text) # "") =>
        /\ pc = "rejected"
        /\ ~parsed.ok
        /\ parsed.err = ExpectedParseError(text)
        /\ parsed.val = NoGrammar

\* the production lines of a text: the n lines after the count line
ProductionLines(lines) ==
    LET n == ParseUsize(Trim(lines[1])).n
    IN  [i \in 1..n |-> lines[i + 1]]

\* the left side of the line starts with a character that is no uppercase letter
ForeignLhs(l) ==
    /\ ~BadProductionLine(l)
    /\ Head(TrimStart(l)) \notin AsciiUppercase

\* C12: Grammar::parse returns InvalidProduction for a production line whose left
\* side starts with a character that is not an uppercase ASCII letter, so every
\* production of a grammar it returns has a Nonterminal as lhs.
C12_LhsIsNonterminal ==
    ParseEnded =>
        /\ (/\ ExpectedParseError(text) = ""
            /\ \E i \in 1..Len(ProductionLines(text)) :
                   ForeignLhs(ProductionLines(text)[i]))
           => (~parsed.ok /\ parsed.err = "InvalidProduction")
        /\ parsed.ok =>
               \A i \in 1..Len(grammar.productions) :
                   is_nonterminal(grammar.productions[i].lhs)

\* the symbols that occur in a right-hand side of the grammar
RhsSymbols(g) ==
    UNION {{g.productions[i].rhs[j] : j \in 1..Len(g.productions[i].rhs)} :
           i \in 1..Len(g.productions)}

\* the left-hand sides of the grammar
LhsSymbols(g) == {g.productions[i].lhs : i \in 1..Len(g.productions)}

\* C13: in a grammar Grammar::parse returns, nonterminals() is the left-hand
\* sides together with the Nonterminal symbols of the right-hand sides,
\* terminals() is the Terminal symbols of the right-hand sides, the two sets are
\* disjoint, neither holds Epsilon or EndMarker, and a nonterminal that occurs on
\* right-hand sides only has an empty get_productions.
C13_SymbolSets ==
    parsed.ok =>
        /\ grammar.nonterminals =
               LhsSymbols(grammar) \cup {s \in RhsSymbols(grammar) : s.k = "N"}
        /\ grammar.terminals = {s \in RhsSymbols(grammar) : s.k = "T"}
        /\ grammar.nonterminals \cap grammar.terminals = {}
        /\ Epsilon \notin grammar.nonterminals \cup grammar.terminals
        /\ EndMarker \notin grammar.nonterminals \cup grammar.terminals
        /\ \A a \in grammar.nonterminals \ LhsSymbols(grammar) :
               get_productions(grammar, a) = <<>>

\* the positions of a production line where an alternative begins: a character
\* after the separator that is no blank and follows a blank or the separator
AlternativeStarts(l) ==
    {p \in (ArrowAt(l) + 2)..Len(l) :
        /\ ~IsWhitespace(l[p])
        /\ (p = ArrowAt(l) + 2 \/ IsWhitespace(l[p - 1]))}

\* the alternative that begins at p: the characters up to the next blank
AlternativeAt(l, p) ==
    LET stop == {q \in p..Len(l) : IsWhitespace(l[q])}
        last == IF stop = {} THEN Len(l)
                ELSE (CHOOSE q \in stop : \A r \in stop : q <= r) - 1
    IN  SubSeq(l, p, last)

\* the alternatives of a production line, left to right, each with the first
\* character of the line's left side
AlternativesOf(l) ==
    LET starts == AlternativeStarts(l)
        nth(k) == CHOOSE p \in starts :
                      Cardinality({q \in starts : q < p}) = k - 1
    IN  [k \in 1..Cardinality(starts) |->
            [lhs |-> Head(TrimStart(l)), alt |-> AlternativeAt(l, nth(k))]]

\* the alternatives of the production lines of a text, in line order
RECURSIVE AllAlternatives(_)
AllAlternatives(ls) ==
    IF ls = <<>> THEN <<>>
    ELSE AlternativesOf(Head(ls)) \o AllAlternatives(Tail(ls))

\* C14: Grammar::parse makes one production per whitespace-separated alternative
\* of each production line, in line order and then from left to right, each
\* with the symbols of its characters; no rhs is empty; the alternative "e"
\* gives rhs = [Epsilon]; get_productions(A) is the productions of A in the
\* order of declaration.
C14_OneProductionPerAlternative ==
    parsed.ok =>
        LET alts == AllAlternatives(ProductionLines(text))
        IN  /\ Len(grammar.productions) = Len(alts)
            /\ \A k \in 1..Len(alts) :
                   /\ grammar.productions[k].lhs = from_char(alts[k].lhs)
                   /\ Len(grammar.productions[k].rhs) = Len(alts[k].alt)
                   /\ \A m \in 1..Len(alts[k].alt) :
                          grammar.productions[k].rhs[m] = from_char(alts[k].alt[m])
                   /\ grammar.productions[k].rhs # <<>>
                   /\ alts[k].alt = <<"e">> =>
                          grammar.productions[k].rhs = <<Epsilon>>
            /\ \A a \in grammar.nonterminals :
                   get_productions(grammar, a) =
                       SelectSeq(grammar.productions, LAMBDA p : p.lhs = a)

\* C14 happens: the five alternatives of InterleavedText have become five
\* productions, A -> e among them, and get_productions(S) lists the three of S
C14_Witness ==
    /\ text = InterleavedText
    /\ parsed.ok
    /\ pc = "first"
    /\ Len(grammar.productions) = 5
    /\ grammar.productions[3] = Production(Nonterminal("A"), <<Epsilon>>)
    /\ get_productions(grammar, Nonterminal("S")) =
           <<Production(Nonterminal("S"), <<Terminal("a")>>),
             Production(Nonterminal("S"), <<Nonterminal("A")>>),
             Production(Nonterminal("S"), <<Terminal("c")>>)>>

\* compute_first_sets has returned
FirstComputed == parsed.ok /\ pc \notin {"parse", "first"}

\* C15: in the result of compute_first_sets FIRST(t) = {t} for every terminal t
\* of the grammar, FIRST(Epsilon) = {Epsilon} and FIRST(EndMarker) = {EndMarker},
\* and these entries are the ones the initialisation made.
C15_FirstOfTerminals ==
    FirstComputed =>
        \A s \in grammar.terminals \cup {Epsilon, EndMarker} :
            /\ s \in DOMAIN first_sets
            /\ first_sets[s] = {s}
            /\ first_init(grammar)[s] = first_sets[s]

\* the grammar with its productions in another order: all_productions() then
\* hands them to a pass in that order
Reordered(g, perm) ==
    [g EXCEPT !.productions = [i \in 1..Len(g.productions) |-> g.productions[perm[i]]]]

\* the orders in which the productions of the grammar can be visited
VisitOrders(g) == Permutations(1..Len(g.productions))

\* compute_first_sets has just returned
FirstJustComputed == parsed.ok /\ pc = "follow"

\* compute_follow_sets has just returned
FollowJustComputed == parsed.ok /\ pc = "ll1"

\* C16: compute_first_sets and compute_follow_sets return the same sets when
\* they are run again on the same grammar (and the same FIRST sets), and when
\* the productions are visited in any other order inside a pass.
C16_OrderIndependent ==
    /\ FirstJustComputed =>
           /\ compute_first_sets(grammar) = first_sets
           /\ \A perm \in VisitOrders(grammar) :
                  compute_first_sets(Reordered(grammar, perm)) = first_sets
    /\ FollowJustComputed =>
           /\ compute_follow_sets(grammar, first_sets) = follow_sets
           /\ \A perm \in VisitOrders(grammar) :
                  compute_follow_sets(Reordered(grammar, perm), first_sets) =
                      follow_sets

\* C16 happens: FIRST and FOLLOW of Example1, six productions and several
\* passes, have been computed
C16_Witness ==
    /\ text = Example1
    /\ FollowJustComputed
    /\ first_sets[Nonterminal("S")] = {Terminal("("), Terminal("i")}
    /\ follow_sets[Nonterminal("F")] =
           {Terminal("+"), Terminal("*"), Terminal(")"), EndMarker}

\* what the recognizers are built from and made of
RecognizerData ==
    <<parsed, first_sets, follow_sets, ll1, lr0, action_table, goto_table, slr1>>

DemandedActions(s, t) ==
    LET items == lr0.states[s + 1]
    IN  {Shift(lr0.transitions[<<s, t>>]) :
            item \in {it \in items :
                        /\ ~is_reduce_item(it)
                        /\ symbol_after_dot(it) = <<t>>
                        /\ (is_terminal(t) \/ is_end_marker(t))
                        /\ <<s, t>> \in DOMAIN lr0.transitions}}
        \cup {Reduce(item.production) :
                item \in {it \in items :
                            /\ is_reduce_item(it)
                            /\ it.production.lhs # augmented_start
                            /\ t \in GetOrEmpty(follow_sets, it.production.lhs)}}
        \cup {Accept :
                item \in {it \in items :
                            /\ is_reduce_item(it)
                            /\ it.production.lhs = augmented_start
                            /\ t = EndMarker}}

\* the lookahead symbols of the grammar
Lookaheads == grammar.terminals \cup {EndMarker}

\* some state demands two different actions for one lookahead symbol
SomeStateHasConflict ==
    \E s \in 0..(Len(lr0.states) - 1) :
        \E t \in Lookaheads : Cardinality(DemandedActions(s, t)) >= 2

\* C18: SLR1Parser::build returns a conflict error only when some LR(0) state
\* demands two different actions for the same lookahead symbol; the grammar
\* S -> A | a, A -> B, B -> b has no such state and builds.
C18_ConflictOnlyWhenReal ==
    SLR1Decided =>
        /\ ~slr1.ok => SomeStateHasConflict
        /\ text = ChainTest => slr1.ok


\* C20: LL1Parser::build reports LL1Conflict only when the cell already holds a
\* different production; the same production reaching a cell twice (through
\* FIRST and then FOLLOW, or from an alternative written twice) is no conflict.
C20_ConflictNeedsDifferentProduction ==
    (LL1Decided /\ ~ll1.ok /\ ll1.err.kind = "LL1Conflict") =>
        ll1.err.prod1 # ll1.err.prod2


(***************************************************************************)
(* The loops of first_follow.rs and slr1.rs, one iteration per step        *)
(***************************************************************************)
\* the body of `for production` in compute_first_sets with the grown set
\* written to a copy: the map the loop reads stays as it was
first_step_not_stored(sets, production, changed) ==
    LET current_first == sets[production.lhs]
        new_first == current_first \cup first_of_string(sets, production.rhs)
    IN  [sets |-> sets,
         changed |-> changed \/ Cardinality(new_first) # Cardinality(current_first)]

\* the body of `for production in grammar.all_productions()` in
\* compute_first_sets
first_step(sets, production, changed) ==
    LET current_first == sets[production.lhs]
        new_first == current_first \cup first_of_string(sets, production.rhs)
    IN  IF Cardinality(new_first) # Cardinality(current_first)
        THEN [sets |-> [sets EXCEPT ![production.lhs] = new_first], changed |-> TRUE]
        ELSE [sets |-> sets, changed |-> changed]

\* the body of `for production in grammar.all_productions()` in
\* compute_follow_sets
follow_step(first, production, follow, changed) ==
    follow_positions(first, production.lhs, production.rhs, 1, follow, changed)

\* the body of `while changed` in SLR1Parser::closure
closure_iteration(g, items) ==
    LET new_items ==
            UNION {LET sym == symbol_after_dot(item)
                   IN  IF sym # <<>> /\ is_nonterminal(sym[1])
                       THEN LET prods == get_productions(g, sym[1])
                            IN  {Item(prods[i], 0) : i \in 1..Len(prods)}
                       ELSE {} : item \in items}
    IN  [items |-> items \cup new_items, changed |-> ~(new_items \subseteq items)]

\* the symbol `for symbol in symbols` of build_lr0_automaton takes next
next_symbol(symbols, order) ==
    IF order = "ascending"
    THEN CHOOSE s \in symbols : \A t \in symbols \ {s} : symbol_less(s, t)
    ELSE CHOOSE s \in symbols : \A t \in symbols \ {s} : symbol_less(t, s)

\* bt while a `while changed` loop runs: the production the `for` loop is at
\* (1-based) and the flag
LoopAt(i, changed) == [i |-> i, changed |-> changed]

\* compute_first_sets: the initial map, `changed = true`, the loop is entered
FirstInit ==
    /\ pc = "first"
    /\ first_sets' = first_init(grammar)
    /\ bt' = LoopAt(1, FALSE)
    /\ pc' = "first_loop"
    /\ UNCHANGED <<text, parsed, follow_sets, ll1, lr0, action_table,
                   goto_table, slr1, input, ll1_run, slr1_run>>

\* compute_first_sets: the `for` body for one production
FirstProduction ==
    /\ pc = "first_loop"
    /\ bt.i <= Len(grammar.productions)
    /\ LET r == first_step(first_sets, grammar.productions[bt.i], bt.changed)
       IN  /\ first_sets' = r.sets
           /\ bt' = LoopAt(bt.i + 1, r.changed)
    /\ UNCHANGED <<pc, text, parsed, follow_sets, ll1, lr0, action_table,
                   goto_table, slr1, input, ll1_run, slr1_run>>

\* compute_first_sets: the `for` loop is through, `while changed` is tested
FirstTest ==
    /\ pc = "first_loop"
    /\ bt.i > Len(grammar.productions)
    /\ bt' = LoopAt(1, FALSE)
    /\ pc' = IF bt.changed THEN "first_loop" ELSE "follow"
    /\ UNCHANGED <<text, parsed, first_sets, follow_sets, ll1, lr0, action_table,
                   goto_table, slr1, input, ll1_run, slr1_run>>

\* compute_follow_sets: the empty sets, EndMarker for the start symbol
FollowInit ==
    /\ pc = "follow"
    /\ ~follow_panics(grammar)
    /\ follow_sets' = [s \in grammar.nonterminals |->
                          IF s = grammar.start_symbol THEN {EndMarker} ELSE {}]
    /\ bt' = LoopAt(1, FALSE)
    /\ pc' = "follow_loop"
    /\ UNCHANGED <<text, parsed, first_sets, ll1, lr0, action_table,
                   goto_table, slr1, input, ll1_run, slr1_run>>

\* compute_follow_sets: the `for` body for one production
FollowProduction ==
    /\ pc = "follow_loop"
    /\ bt.i <= Len(grammar.productions)
    /\ LET r == follow_step(first_sets, grammar.productions[bt.i], follow_sets,
                            bt.changed)
       IN  /\ follow_sets' = r.sets
           /\ bt' = LoopAt(bt.i + 1, r.changed)
    /\ UNCHANGED <<pc, text, parsed, first_sets, ll1, lr0, action_table,
                   goto_table, slr1, input, ll1_run, slr1_run>>

\* compute_follow_sets: the `for` loop is through, `while changed` is tested
FollowTest ==
    /\ pc = "follow_loop"
    /\ bt.i > Len(grammar.productions)
    /\ bt' = LoopAt(1, FALSE)
    /\ pc' = IF bt.changed THEN "follow_loop" ELSE "ll1"
    /\ UNCHANGED <<text, parsed, first_sets, follow_sets, ll1, lr0, action_table,
                   goto_table, slr1, input, ll1_run, slr1_run>>

\* build_lr0_automaton: closure is called on the initial item
LR0Init ==
    /\ pc = "lr0"
    /\ \E order \in SymbolOrders :
           bt' = [order |-> order, caller |-> "initial", state_id |-> 0,
                  symbols |-> {}, symbol |-> Epsilon,
                  items |-> {Item(start_production(grammar), 0)}]
    /\ lr0' = [states |-> <<>>, transitions |-> <<>>, worklist |-> <<>>]
    /\ pc' = "closure_loop"
    /\ UNCHANGED <<text, parsed, first_sets, follow_sets, ll1, action_table,
                   goto_table, slr1, input, ll1_run, slr1_run>>

\* closure: one pass over the items; when nothing was added closure returns,
\* to build_lr0_automaton's first lines or to the `for symbol` body after goto
ClosurePass ==
    /\ pc = "closure_loop"
    /\ LET r == closure_iteration(grammar, bt.items)
           next_state == r.items
           existing_id == position(lr0.states, next_state)
       IN  IF r.changed
           THEN /\ bt' = [bt EXCEPT !.items = r.items]
                /\ UNCHANGED <<pc, lr0>>
           ELSE IF bt.caller = "initial"
           THEN /\ lr0' = [states |-> <<next_state>>, transitions |-> <<>>,
                           worklist |-> <<0>>]
                /\ bt' = [bt EXCEPT !.items = {}]
                /\ pc' = "worklist"
           ELSE /\ lr0' = IF next_state = {} THEN lr0
                          ELSE IF existing_id >= 0
                          THEN [lr0 EXCEPT !.transitions =
                                   MapInsert(@, <<bt.state_id, bt.symbol>>,
                                             existing_id)]
                          ELSE [states |-> Append(lr0.states, next_state),
                                worklist |-> Append(lr0.worklist, Len(lr0.states)),
                                transitions |->
                                    MapInsert(lr0.transitions,
                                              <<bt.state_id, bt.symbol>>,
                                              Len(lr0.states))]
                /\ bt' = [bt EXCEPT !.items = {}]
                /\ pc' = "symbols"
    /\ UNCHANGED <<text, parsed, first_sets, follow_sets, ll1, action_table,
                   goto_table, slr1, input, ll1_run, slr1_run>>

\* build_lr0_automaton: worklist.pop_front() gives a state; its symbols are
\* collected
WorklistPop ==
    /\ pc = "worklist"
    /\ lr0.worklist # <<>>
    /\ LET state_id == Head(lr0.worklist)
           state == lr0.states[state_id + 1]
           symbols == {symbol_after_dot(item)[1] :
                         item \in {it \in state : symbol_after_dot(it) # <<>>}}
       IN  bt' = [bt EXCEPT !.state_id = state_id, !.symbols = symbols]
    /\ lr0' = [lr0 EXCEPT !.worklist = Tail(lr0.worklist)]
    /\ pc' = "symbols"
    /\ UNCHANGED <<text, parsed, first_sets, follow_sets, ll1, action_table,
                   goto_table, slr1, input, ll1_run, slr1_run>>

\* build_lr0_automaton: the worklist is empty, (states, transitions) is returned
WorklistDone ==
    /\ pc = "worklist"
    /\ lr0.worklist = <<>>
    /\ pc' = "automaton"
    /\ UNCHANGED <<text, parsed, first_sets, follow_sets, ll1, lr0, bt,
                   action_table, goto_table, slr1, input, ll1_run, slr1_run>>

\* `for symbol in symbols`: goto moves the dot over the next symbol and calls
\* closure on the moved items
SymbolGoto ==
    /\ pc = "symbols"
    /\ bt.symbols # {}
    /\ LET state == lr0.states[bt.state_id + 1]
           symbol == next_symbol(bt.symbols, bt.order)
       IN  bt' = [bt EXCEPT !.caller = "goto",
                            !.symbol = symbol,
                            !.symbols = bt.symbols \ {symbol},
                            !.items =
                                {Item(item.production, item.dot_position + 1) :
                                   item \in {it \in state :
                                               symbol_after_dot(it) = <<symbol>>}}]
    /\ pc' = "closure_loop"
    /\ UNCHANGED <<text, parsed, first_sets, follow_sets, ll1, lr0, action_table,
                   goto_table, slr1, input, ll1_run, slr1_run>>

\* `for symbol in symbols` has taken every symbol of the state
SymbolsDone ==
    /\ pc = "symbols"
    /\ bt.symbols = {}
    /\ pc' = "worklist"
    /\ UNCHANGED <<text, parsed, first_sets, follow_sets, ll1, lr0, bt,
                   action_table, goto_table, slr1, input, ll1_run, slr1_run>>

NextLoops ==
    \/ ParseGrammar
    \/ FirstInit
    \/ FirstProduction
    \/ FirstTest
    \/ FollowInit
    \/ FollowProduction
    \/ FollowTest
    \/ ComputeFollowPanics
    \/ BuildLL1
    \/ LR0Init
    \/ ClosurePass
    \/ WorklistPop
    \/ WorklistDone
    \/ SymbolGoto
    \/ SymbolsDone

\* the steps inside the four loops
LoopStep ==
    \/ FirstProduction
    \/ FirstTest
    \/ FollowProduction
    \/ FollowTest
    \/ ClosurePass
    \/ WorklistPop
    \/ WorklistDone
    \/ SymbolGoto
    \/ SymbolsDone

\* the program is one thread that runs until it returns or panics: inside a
\* loop, a step that can be taken is taken
SpecLoops == Init /\ [][NextLoops]_vars /\ WF_vars(LoopStep)

\* the step-wise loops compute what the functions compute
LoopsAgree ==
    /\ pc \in {"follow", "follow_loop"} => first_sets = compute_first_sets(grammar)
    /\ pc \in {"ll1", "lr0"} => follow_sets = compute_follow_sets(grammar, first_sets)
    /\ pc = "automaton" =>
           [states |-> lr0.states, transitions |-> lr0.transitions] =
               build_lr0_automaton(grammar, start_production(grammar), bt.order)

\* the control points inside the loops; the closure loop runs inside the
\* worklist loop, and once before it
LoopPcs == {"first_loop", "follow_loop", "closure_loop", "worklist", "symbols"}

\* C19: for every successfully parsed grammar the fixed-point loops of
\* compute_first_sets and compute_follow_sets, the closure loop and the worklist
\* of build_lr0_automaton terminate: control that is inside a loop gets out of
\* the loops, to the statement after compute_first_sets' loop, after
\* compute_follow_sets' loop, or to the return of build_lr0_automaton.
C19_LoopsTerminate == (pc \in LoopPcs) ~> (pc \in {"follow", "ll1", "automaton"})

\* C19 happens: for Example1 every loop has run more than once and
\* build_lr0_automaton has returned its 12 states
C19_Witness ==
    /\ text = Example1
    /\ pc = "automaton"
    /\ first_sets = compute_first_sets(grammar)
    /\ first_sets # first_pass(grammar, 1, first_init(grammar), FALSE).sets
    /\ Len(lr0.states) = 12
    /\ lr0.worklist = <<>>


\* LL1Parser::build over the first n productions only
ll1_build_upto(n) ==
    LL1Parser_build([grammar EXCEPT !.productions = SubSeq(grammar.productions, 1, n)],
                    first_sets, follow_sets)

\* C21: when LL1Parser::build fails it stops at the first conflicting cell met
\* while the productions are scanned in declaration order; in the reported
\* LL1Conflict prod1 is the production declared earlier and prod2 the one
\* declared later, and both have the reported nonterminal as lhs.
C21_ConflictOrder ==
    (LL1Decided /\ ~ll1.ok /\ ll1.err.kind = "LL1Conflict") =>
        \E j \in 1..Len(grammar.productions) :
            /\ \A r \in ll1_build_upto(j - 1) : r.ok
            /\ production_to_string(grammar.productions[j]) = ll1.err.prod2
            /\ symbol_to_string(grammar.productions[j].lhs) = ll1.err.nonterminal
            /\ \E i \in 1..(j - 1) :
                   /\ production_to_string(grammar.productions[i]) = ll1.err.prod1
                   /\ grammar.productions[i].lhs = grammar.productions[j].lhs


\* the lookahead symbols under which the LL(1) rule selects a production
ll1_selects(production) ==
    LET first_alpha == first_of_string(first_sets, production.rhs)
    IN  {s \in first_alpha : ~is_epsilon(s)} \cup
        (IF Epsilon \in first_alpha
         THEN GetOrEmpty(follow_sets, production.lhs) ELSE {})

\* every symbol that can stand in a table key of the grammar
KeySymbols ==
    grammar.nonterminals \cup grammar.terminals \cup {Epsilon, EndMarker}

\* C22: when LL1Parser::build succeeds, table[(A, t)] = (A -> alpha) holds
\* exactly when t is in FIRST(alpha) minus Epsilon, or Epsilon is in
\* FIRST(alpha) and t is in FOLLOW(A); every key has a Nonterminal first
\* component and a Terminal or EndMarker second component, never Epsilon.
C22_TableContents ==
    (LL1Decided /\ ll1.ok) =>
        /\ \A i \in 1..Len(grammar.productions) : \A t \in KeySymbols :
               LET production == grammar.productions[i]
                   key == <<production.lhs, t>>
               IN  (key \in DOMAIN ll1.table /\ ll1.table[key] = production)
                       <=> t \in ll1_selects(production)
        /\ \A key \in DOMAIN ll1.table :
               /\ is_nonterminal(key[1])
               /\ is_terminal(key[2]) \/ is_end_marker(key[2])
               /\ \E i \in 1..Len(grammar.productions) :
                      ll1.table[key] = grammar.productions[i]


\* the items [A -> .e] of the epsilon productions in LR(0) state s
EpsilonItems(s) ==
    {item \in lr0.states[s + 1] :
        item.production.rhs = <<Epsilon>> /\ item.dot_position = 0}

\* C23: an LR(0) item whose dot points at the Epsilon placeholder, [A -> .e], is
\* treated as a reduce item: the automaton has no transition on Epsilon, and in
\* every state that holds the item ACTION[(s, t)] = Reduce(A -> e) for each t in
\* FOLLOW(A).
C23_EpsilonItemReduces ==
    (SLR1Decided /\ slr1.ok) =>
        /\ \A key \in DOMAIN lr0.transitions : ~is_epsilon(key[2])
        /\ \A s \in 0..(Len(lr0.states) - 1) : \A item \in EpsilonItems(s) :
               \A t \in GetOrEmpty(follow_sets, item.production.lhs) :
                   /\ <<s, t>> \in DOMAIN action_table
                   /\ action_table[<<s, t>>] = Reduce(item.production)


\* build_lr0_automaton has just returned
AutomatonReturned == pc = "tables" /\ bt.state_id = 0 /\ bt.done = {}

\* the items of a state with the dot moved over symbol X
MovedOver(items, X) ==
    {Item(item.production, item.dot_position + 1) :
       item \in {it \in items : symbol_after_dot(it) = <<X>>}}

\* the closure rule: with [A -> alpha . B beta] the set holds [B -> . gamma] for
\* every production B -> gamma (the start production is not a production of B)
IsClosed(items) ==
    \A item \in items :
        \A i \in 1..Len(grammar.productions) :
            symbol_after_dot(item) = <<grammar.productions[i].lhs>>
                /\ is_nonterminal(grammar.productions[i].lhs)
            => Item(grammar.productions[i], 0) \in items

\* the state ids reachable from the ids in `seen` over the transitions
RECURSIVE ReachableFrom(_)
ReachableFrom(seen) ==
    LET more == {lr0.transitions[key] : key \in {k \in DOMAIN lr0.transitions :
                                                    k[1] \in seen}}
    IN  IF more \subseteq seen THEN seen ELSE ReachableFrom(seen \cup more)

\* C24: the collection returned by build_lr0_automaton: state 0 is the closure
\* of {[AugStart -> .S]}; every state is non-empty and closed under the closure
\* rule; no two state indices hold equal item sets; every state is reachable
\* from state 0; transitions[(s, X)] = j exactly when Goto(states[s], X) is
\* non-empty and equals states[j].
C24_CanonicalCollection ==
    AutomatonReturned =>
        LET ids == 0..(Len(lr0.states) - 1)
        IN  /\ lr0.states[1] = closure(grammar, {Item(start_production(grammar), 0)})
            /\ \A s \in ids : lr0.states[s + 1] # {} /\ IsClosed(lr0.states[s + 1])
            /\ \A s, j \in ids : lr0.states[s + 1] = lr0.states[j + 1] => s = j
            /\ ReachableFrom({0}) = ids
            /\ \A key \in DOMAIN lr0.transitions : key[1] \in ids /\ key[2] \in KeySymbols
            /\ \A s \in ids : \A X \in KeySymbols :
                   LET target == closure(grammar, MovedOver(lr0.states[s + 1], X))
                   IN  IF target = {} THEN <<s, X>> \notin DOMAIN lr0.transitions
                       ELSE /\ <<s, X>> \in DOMAIN lr0.transitions
                            /\ lr0.transitions[<<s, X>>] \in ids
                            /\ lr0.states[lr0.transitions[<<s, X>>] + 1] = target

\* C24 happens: build_lr0_automaton has returned the 12 states of Example1,
\* some of them reached over more than one transition
C24_Witness ==
    /\ AutomatonReturned
    /\ text = Example1
    /\ Len(lr0.states) = 12
    /\ Cardinality(DOMAIN lr0.transitions) > 12


\* an ordinary reduce item: completed, and not the start production's
OrdinaryReduceItem(item) ==
    is_reduce_item(item) /\ item.production.lhs # augmented_start

\* the items of the state being scanned that build_tables has not visited yet
Unscanned == lr0.states[bt.state_id + 1] \ bt.done

\* C25: while build_tables scans an ordinary reduce item [A -> alpha.] in state
\* s, for each t in FOLLOW(A): an unset ACTION[(s, t)] becomes
\* Reduce(A -> alpha); an existing Shift aborts the build with
\* SLR1ShiftReduceConflict naming s and t; an existing Reduce of a different
\* production aborts it with SLR1ReduceReduceConflict naming s, t and both
\* productions; no table is returned after a conflict.
C25_ReduceItemScan ==
    [][pc = "tables" =>
         LET s == bt.state_id
         IN  /\ (pc' = "tables" /\ bt'.state_id = s) =>
                    \A item \in bt'.done \ bt.done :
                        OrdinaryReduceItem(item) =>
                            \A t \in GetOrEmpty(follow_sets, item.production.lhs) :
                                IF <<s, t>> \in DOMAIN action_table
                                THEN /\ action_table[<<s, t>>] = Accept
                                     /\ action_table'[<<s, t>>] = Accept
                                ELSE action_table'[<<s, t>>] = Reduce(item.production)
             /\ (pc' = "ready" /\ ~slr1'.ok) =>
                    /\ action_table' = <<>>
                    /\ goto_table' = <<>>
                    /\ slr1'.err.state = s
                    /\ \E item \in Unscanned :
                           \/ /\ ~is_reduce_item(item)
                              /\ slr1'.err.kind = "SLR1ShiftReduceConflict"
                           \/ /\ OrdinaryReduceItem(item)
                              /\ \E t \in GetOrEmpty(follow_sets, item.production.lhs) :
                                     /\ <<s, t>> \in DOMAIN action_table
                                     /\ slr1'.err.symbol = symbol_to_string(t)
                                     /\ LET existing == action_table[<<s, t>>]
                                        IN  \/ /\ existing.type = "Shift"
                                               /\ slr1'.err.kind =
                                                      "SLR1ShiftReduceConflict"
                                            \/ /\ existing.type = "Reduce"
                                               /\ existing.production # item.production
                                               /\ slr1'.err =
                                                      SLR1ReduceReduceConflict(s, t,
                                                          existing.production,
                                                          item.production)
    ]_vars

\* C25 happens: for S -> A | B, A -> C, B -> C the scan of a completed item has
\* met the Reduce of the other production and the build has ended with the
\* reduce/reduce conflict
C25_Witness ==
    /\ text = ReduceReduceText
    /\ SLR1Decided
    /\ ~slr1.ok
    /\ slr1.err.kind = "SLR1ReduceReduceConflict"
    /\ slr1.err.prod1 # slr1.err.prod2
    /\ action_table = <<>>


\* the item [AugStart -> S.]
AcceptItem == Item(start_production(grammar), 1)

\* C26: in every successfully built ACTION table ACTION[(s, EndMarker)] = Accept
\* for exactly the states s that contain [AugStart -> S.], whatever other items
\* the state holds and in whatever order its items are scanned; a reduce item
\* that lands on a cell holding Accept leaves Accept and raises no conflict.
C26_AcceptCells ==
    /\ [](SLR1Decided /\ slr1.ok =>
             \A s \in 0..(Len(lr0.states) - 1) :
                 /\ AcceptItem \in lr0.states[s + 1] <=>
                        /\ <<s, EndMarker>> \in DOMAIN action_table
                        /\ action_table[<<s, EndMarker>>] = Accept
                 /\ \A key \in DOMAIN action_table :
                        action_table[key] = Accept => key[2] = EndMarker)
    /\ [][(/\ pc = "tables"
            /\ <<bt.state_id, EndMarker>> \in DOMAIN action_table
            /\ action_table[<<bt.state_id, EndMarker>>] = Accept
            /\ \E item \in Unscanned : OrdinaryReduceItem(item)
            /\ \A other \in Unscanned : is_reduce_item(other))
          => /\ pc' = "tables"
             /\ action_table'[<<bt.state_id, EndMarker>>] = Accept]_vars

\* C26 happens: for S -> S | a the state after S holds [AugStart -> S.] and the
\* completed S -> S, whose lookahead is $ too; the table is built and the cell
\* holds Accept
C26_Witness ==
    /\ text = AcceptReduceText
    /\ SLR1Decided
    /\ slr1.ok
    /\ \E s \in 0..(Len(lr0.states) - 1) :
           /\ AcceptItem \in lr0.states[s + 1]
           /\ \E item \in lr0.states[s + 1] :
                  /\ OrdinaryReduceItem(item)
                  /\ EndMarker \in GetOrEmpty(follow_sets, item.production.lhs)
           /\ action_table[<<s, EndMarker>>] = Accept


\* the nonterminals that derive the empty string: the least set N with A in N
\* whenever some production A -> X1 ... Xk has every Xi either Epsilon or in N
RECURSIVE NullableFrom(_)
NullableFrom(N) ==
    LET more == {grammar.productions[i].lhs :
                    i \in {k \in 1..Len(grammar.productions) :
                             /\ is_nonterminal(grammar.productions[k].lhs)
                             /\ \A j \in 1..Len(grammar.productions[k].rhs) :
                                    \/ is_epsilon(grammar.productions[k].rhs[j])
                                    \/ grammar.productions[k].rhs[j] \in N}}
    IN  IF more \subseteq N THEN N ELSE NullableFrom(N \cup more)

CanDeriveEpsilon(beta) ==
    \A j \in 1..Len(beta) : is_epsilon(beta[j]) \/ beta[j] \in NullableFrom({})

\* what the FOLLOW rules ask FOLLOW(B) to hold, given the family F
FollowRequired(F, B) ==
    (IF B = grammar.start_symbol THEN {EndMarker} ELSE {}) \cup
    UNION {LET production == grammar.productions[i]
               rhs == production.rhs
           IN  UNION {LET beta == SubSeq(rhs, j + 1, Len(rhs))
                      IN  {s \in first_of_string(first_sets, beta) : ~is_epsilon(s)}
                          \cup (IF beta = <<>> \/ CanDeriveEpsilon(beta)
                                THEN F[production.lhs] ELSE {}) :
                      j \in {k \in 1..Len(rhs) : rhs[k] = B /\ is_nonterminal(B)}} :
           i \in 1..Len(grammar.productions)}

\* the least family that holds what the rules ask for: the limit of the rules
\* applied to all sets at once, from the empty sets
RECURSIVE LeastFollowFrom(_)
LeastFollowFrom(F) ==
    LET G == [B \in DOMAIN F |-> F[B] \cup FollowRequired(F, B)]
    IN  IF G = F THEN F ELSE LeastFollowFrom(G)

LeastFollow == LeastFollowFrom([B \in grammar.nonterminals |-> {}])

Vanishes(s) == is_epsilon(s) \/ s \in NullableFrom({})

\* the symbols of rhs that can come first in a string derived from it: those
\* with nothing but vanishing symbols in front
Leading(rhs) ==
    {k \in 1..Len(rhs) : \A j \in 1..(k - 1) : Vanishes(rhs[j])}

\* for each nonterminal A the terminals t with A =>* t gamma: the least family
\* with t in Begins(A) when a production of A has t, or a nonterminal B with t
\* in Begins(B), at a leading position
RECURSIVE BeginsFrom(_)
BeginsFrom(F) ==
    LET G == [A \in DOMAIN F |->
                 F[A] \cup
                 UNION {LET rhs == grammar.productions[i].rhs
                        IN  UNION {IF is_nonterminal(rhs[k])
                                   THEN GetOrEmpty(F, rhs[k])
                                   ELSE IF is_epsilon(rhs[k]) THEN {}
                                   ELSE {rhs[k]} : k \in Leading(rhs)} :
                        i \in {n \in 1..Len(grammar.productions) :
                                 grammar.productions[n].lhs = A}}]
    IN  IF G = F THEN F ELSE BeginsFrom(G)

Begins == BeginsFrom([A \in {n \in grammar.nonterminals : is_nonterminal(n)} |-> {}])

\* the sequences first_of_string is applied to: the right-hand sides, their
\* suffixes, and every sequence of at most two symbols of the grammar
FirstOfStringArguments ==
    UNION {{SubSeq(grammar.productions[i].rhs, j, Len(grammar.productions[i].rhs)) :
               j \in 1..(Len(grammar.productions[i].rhs) + 1)} :
           i \in 1..Len(grammar.productions)}
    \cup {<<>>} \cup {<<s>> : s \in KeySymbols}
    \cup {<<s, t>> : <<s, t>> \in KeySymbols \X KeySymbols}

\* C28: in the result of compute_first_sets, for every nonterminal A, a terminal
\* t is in FIRST(A) exactly when A derives some string beginning with t, and
\* Epsilon is in FIRST(A) exactly when A derives the empty string;
\* first_of_string of a sequence adds Epsilon exactly when every symbol of the
\* sequence has Epsilon in its FIRST set, the empty sequence included.
C28_FirstIsDerivation ==
    FirstJustComputed =>
        /\ \A A \in DOMAIN Begins :
               /\ \A t \in grammar.terminals :
                      t \in first_sets[A] <=> t \in Begins[A]
               /\ Epsilon \in first_sets[A] <=> A \in NullableFrom({})
        /\ \A symbols \in FirstOfStringArguments :
               Epsilon \in first_of_string(first_sets, symbols) <=>
                   \A k \in 1..Len(symbols) :
                       Epsilon \in GetOrEmpty(first_sets, symbols[k])


\* SLR1Parser::parse has been called and is in its loop or has left it
SLR1Called == pc = "parsing" /\ slr1_run.result # "idle"

\* C29: at every step of SLR1Parser::parse on a successfully built table the
\* state stack is non-empty with state 0 at its bottom, its length is the
\* symbol stack's length plus one, and a Reduce never pops more entries than the
\* stack holds above the bottom state, so reading the top state never fails.
C29_StackShape ==
    SLR1Called =>
        /\ slr1_run.result # "panic"
        /\ slr1_run.stack # <<>>
        /\ slr1_run.stack[1] = 0
        /\ Len(slr1_run.stack) = Len(slr1_run.symbol_stack) + 1
        /\ \A i \in 1..Len(slr1_run.stack) :
               slr1_run.stack[i] \in 0..(Len(lr0.states) - 1)

\* C29 happens: on Example1 the recognizer has reduced (a nonterminal is on the
\* symbol stack) with three states above state 0, and goes on
C29_Witness ==
    /\ SLR1Called
    /\ text = Example1
    /\ slr1_run.result = "running"
    /\ Len(slr1_run.stack) = 4
    /\ \E i \in 1..Len(slr1_run.symbol_stack) : is_nonterminal(slr1_run.symbol_stack[i])


\* a call of parse runs its loop until it returns: an iteration that can be
\* taken is taken
SpecParse ==
    Init /\ [][Next]_vars /\ WF_vars(LL1ParseStep) /\ WF_vars(SLR1ParseStep)

\* what parse returns: a boolean; "idle" stands for a recognizer that was not
\* built and is not called
Returned(run) == run.result \in {"true", "false", "idle"}

====
